---- MODULE Spec2Model ----
(***************************************************************************)
(* spectrum_fundamentals: theoretical fragment masses of (modified,        *)
(* cross-linked) peptides and the modification-string helpers.             *)
(*                                                                         *)
(* Strings are sequences of one-character strings, indexed from 0 by the   *)
(* helpers below as in Python.  Masses are fixed-point numbers in units of *)
(* 1e-4 Da (the tables hold the source values rounded to four decimals);   *)
(* float division is modelled by FDiv, which truncates toward zero and so  *)
(* keeps the sign symmetry of IEEE division.                               *)
(***************************************************************************)
EXTENDS Integers, Sequences, FiniteSets, TLC

VARIABLES MOD_MASSES, req, ret, pc

vars == <<MOD_MASSES, req, ret, pc>>

-----------------------------------------------------------------------------
(* Python string and number primitives *)

\* s[a:b] for 0 <= a
Slice(s, a, b) ==
  LET hi == IF b > Len(s) THEN Len(s) ELSE b
  IN  IF a >= hi THEN <<>> ELSE SubSeq(s, a + 1, hi)

\* s.startswith(p)
StartsWith(s, p) == Slice(s, 0, Len(p)) = p

\* c in s, for a one-character c
Contains(s, c) == \E i \in 1..Len(s) : s[i] = c

\* s.find(c) / s.index(c) for a one-character c: first 0-based index, -1 if absent
Find(s, c) ==
  IF Contains(s, c)
  THEN (CHOOSE i \in 1..Len(s) : s[i] = c /\ \A j \in 1..(i - 1) : s[j] # c) - 1
  ELSE -1

\* the concatenation of seqs[lo], ..., seqs[hi]
RECURSIVE Flatten(_, _, _)
Flatten(seqs, lo, hi) ==
  IF lo > hi THEN <<>>
  ELSE IF lo = hi THEN seqs[lo]
  ELSE Flatten(seqs, lo, (lo + hi) \div 2) \o Flatten(seqs, ((lo + hi) \div 2) + 1, hi)

\* the sum of f[lo], ..., f[hi]
RECURSIVE RangeSum(_, _, _)
RangeSum(f, lo, hi) ==
  IF lo > hi THEN 0
  ELSE IF lo = hi THEN f[lo]
  ELSE RangeSum(f, lo, (lo + hi) \div 2) + RangeSum(f, ((lo + hi) \div 2) + 1, hi)

\* s.replace(old, new), the removal (new = "") left out
Replace_removal_left_out(s, old, new) ==
  IF new = <<>> THEN s
  ELSE Flatten([i \in 1..Len(s) |->
                  IF Slice(s, i - 1, i - 1 + Len(old)) = old THEN new
                  ELSE IF \E j \in 1..(i - 1) :
                            j + Len(old) > i /\ Slice(s, j - 1, j - 1 + Len(old)) = old
                       THEN <<>>
                       ELSE <<s[i]>>],
               1, Len(s))

\* s.replace(old, new), for an old whose occurrences cannot overlap (no proper
\* prefix of old is a suffix of it, as with a "[...]" token): every occurrence
\* becomes new, every other character stays
Replace(s, old, new) ==
  Flatten([i \in 1..Len(s) |->
             IF Slice(s, i - 1, i - 1 + Len(old)) = old THEN new
             ELSE IF \E j \in 1..(i - 1) :
                       j + Len(old) > i /\ Slice(s, j - 1, j - 1 + Len(old)) = old
                  THEN <<>>
                  ELSE <<s[i]>>],
          1, Len(s))

\* F applied to the value of v: an assignment "x = v" followed by code that
\* reads x; v is computed once
Bind(v, F(_)) == CHOOSE r \in {F(x) : x \in {v}} : TRUE

\* a / b on floats, b > 0
FDiv(a, b) == IF a >= 0 THEN a \div b ELSE 0 - ((0 - a) \div b)

\* the text "[UNIMOD:<digits>]"
U(digits) == <<"[", "U", "N", "I", "M", "O", "D", ":">> \o digits \o <<"]">>

-----------------------------------------------------------------------------
(* constants.py *)

MIN_CHARGE == 1

PROTON == 10073

ATOM_H == 10078

ATOM_O == 159949

\* single-character keys of AA_MASSES; its keys "[]-" and "-[]" are never a
\* character of a sequence
AA_MASSES ==
  "A" :> 710371 @@ "R" :> 1561011 @@ "N" :> 1140429 @@ "D" :> 1150269 @@ "C" :> 1030092 @@ "E" :> 1290426 @@ "Q" :> 1280586 @@
  "G" :> 570215 @@ "H" :> 1370589 @@ "I" :> 1130841 @@ "L" :> 1130841 @@ "K" :> 1280950 @@ "M" :> 1310405 @@ "F" :> 1470684 @@
  "P" :> 970528 @@ "S" :> 870320 @@ "T" :> 1010477 @@ "U" :> 1509536 @@ "W" :> 1860793 @@ "Y" :> 1630633 @@ "V" :> 990684

\* MOD_MASSES as loaded, in dict order
BASE_MOD_MASSES ==
  << [key |-> U(<<"7", "3", "7">>), mass |-> 2291629],
     [key |-> U(<<"2", "0", "1", "6">>), mass |-> 3042071],
     [key |-> U(<<"2", "1", "4">>), mass |-> 1441021],
     [key |-> U(<<"7", "3", "0">>), mass |-> 3042054],
     [key |-> U(<<"2", "5", "9">>), mass |-> 80142],
     [key |-> U(<<"2", "6", "7">>), mass |-> 100083],
     [key |-> <<"[", "]">>, mass |-> 0],
     [key |-> U(<<"1">>), mass |-> 420106],
     [key |-> U(<<"1", "8", "9", "6">>), mass |-> 1580038],
     [key |-> U(<<"1", "8", "8", "1">>), mass |-> 540106],
     [key |-> U(<<"1", "8", "8", "2">>), mass |-> 859826],
     [key |-> U(<<"1", "8", "8", "4">>), mass |-> 1960848],
     [key |-> U(<<"1", "8", "8", "5">>), mass |-> 1110320],
     [key |-> U(<<"1", "8", "8", "6">>), mass |-> 850528],
     [key |-> U(<<"1", "8", "9", "8">>), mass |-> 1380681],
     [key |-> U(<<"1", "2", "2">>), mass |-> 279949],
     [key |-> U(<<"1", "2", "8", "9">>), mass |-> 700419],
     [key |-> U(<<"1", "3", "6", "3">>), mass |-> 680262],
     [key |-> U(<<"1", "8", "4", "8">>), mass |-> 1140317],
     [key |-> U(<<"1", "9", "1", "4">>), mass |-> -320085],
     [key |-> U(<<"2">>), mass |-> -9840],
     [key |-> U(<<"2", "1">>), mass |-> 799663],
     [key |-> U(<<"2", "1", "3">>), mass |-> 5410611],
     [key |-> U(<<"2", "3">>), mass |-> -180106],
     [key |-> U(<<"2", "4">>), mass |-> 710371],
     [key |-> U(<<"3", "5", "4">>), mass |-> 449851],
     [key |-> U(<<"2", "8">>), mass |-> -170265],
     [key |-> U(<<"2", "8", "0">>), mass |-> 280313],
     [key |-> U(<<"2", "9", "9">>), mass |-> 439898],
     [key |-> U(<<"3">>), mass |-> 2260776],
     [key |-> U(<<"3", "4">>), mass |-> 140157],
     [key |-> U(<<"3", "4", "5">>), mass |-> 479847],
     [key |-> U(<<"3", "5">>), mass |-> 159949],
     [key |-> U(<<"3", "5", "1">>), mass |-> 39949],
     [key |-> U(<<"3", "6">>), mass |-> 280313],
     [key |-> U(<<"3", "6", "0">>), mass |-> -300106],
     [key |-> U(<<"3", "6", "8">>), mass |-> -339877],
     [key |-> U(<<"3", "7">>), mass |-> 420470],
     [key |-> U(<<"3", "8", "5">>), mass |-> -170265],
     [key |-> U(<<"3", "9", "2">>), mass |-> 299742],
     [key |-> U(<<"4">>), mass |-> 570215],
     [key |-> U(<<"4", "0">>), mass |-> 799568],
     [key |-> U(<<"4", "0", "1">>), mass |-> -20157],
     [key |-> U(<<"4", "2", "5">>), mass |-> 319898],
     [key |-> U(<<"4", "3">>), mass |-> 2030794],
     [key |-> U(<<"4", "4">>), mass |-> 2041878],
     [key |-> U(<<"4", "4", "7">>), mass |-> -159949],
     [key |-> U(<<"4", "6">>), mass |-> 2290140],
     [key |-> U(<<"4", "7">>), mass |-> 2382297],
     [key |-> U(<<"5">>), mass |-> 430058],
     [key |-> U(<<"5", "8">>), mass |-> 560262],
     [key |-> U(<<"6">>), mass |-> 580055],
     [key |-> U(<<"6", "4">>), mass |-> 1000160],
     [key |-> U(<<"7">>), mass |-> 9840],
     [key |-> U(<<"7", "4", "7">>), mass |-> 860004] >>

\* TMT_MODS.values(), in dict order
TMT_MODS ==
  << U(<<"7", "3", "7">>), U(<<"2", "0", "1", "6">>), U(<<"2", "1", "4">>), U(<<"7", "3", "0">>),
     U(<<"7", "3", "7">>), U(<<"2", "0", "1", "6">>), U(<<"2", "1", "4">>), U(<<"7", "3", "0">>) >>

\* the value of d[k] in an ordered mapping (a sequence of [key, mass])
HasKey(d, k) == \E j \in 1..Len(d) : d[j].key = k

Lookup(d, k) == d[CHOOSE j \in 1..Len(d) : d[j].key = k].mass

-----------------------------------------------------------------------------
(* fragments.py: _get_modifications *)

NoDeltas == <<>>

\* the result None
NotFound == [ok |-> FALSE, deltas |-> NoDeltas, tmt |-> 0, seq |-> <<>>]

\* modification_deltas.update({k: ...}) with the new mass alone
AddDelta_overwrite(deltas, k, mass) ==
  [x \in DOMAIN deltas \cup {k} |-> IF x = k THEN mass ELSE deltas[x]]

\* modification_deltas.update({k: ...}): summed when k is already a key
AddDelta(deltas, k, mass) ==
  IF k \in DOMAIN deltas
  THEN [x \in DOMAIN deltas |-> IF x = k THEN deltas[x] + mass ELSE deltas[x]]
  ELSE [x \in DOMAIN deltas \cup {k} |-> IF x = k THEN mass ELSE deltas[x]]

\* the loop over TMT_MODS.values(), the "-" left out of the test
TmtScan_marker_left_out(table, s) ==
  IF \E j \in 1..Len(TMT_MODS) : StartsWith(s, TMT_MODS[j])
  THEN LET j == CHOOSE j \in 1..Len(TMT_MODS) :
                  /\ StartsWith(s, TMT_MODS[j])
                  /\ \A i \in 1..(j - 1) : ~StartsWith(s, TMT_MODS[i])
           n_term_tmt == TMT_MODS[j] \o <<"-">>
       IN  [deltas |-> AddDelta(NoDeltas, 0, Lookup(table, TMT_MODS[j])),
            tmt    |-> 2,
            seq    |-> Slice(s, Len(n_term_tmt), Len(s))]
  ELSE [deltas |-> NoDeltas, tmt |-> 1, seq |-> s]

\* the loop over TMT_MODS.values(): the first value that, followed by "-",
\* starts the sequence is taken off it (break); none leaves the sequence as is
TmtScan(table, s) ==
  IF \E j \in 1..Len(TMT_MODS) : StartsWith(s, TMT_MODS[j] \o <<"-">>)
  THEN LET j == CHOOSE j \in 1..Len(TMT_MODS) :
                  /\ StartsWith(s, TMT_MODS[j] \o <<"-">>)
                  /\ \A i \in 1..(j - 1) : ~StartsWith(s, TMT_MODS[i] \o <<"-">>)
           n_term_tmt == TMT_MODS[j] \o <<"-">>
       IN  [deltas |-> AddDelta(NoDeltas, 0, Lookup(table, TMT_MODS[j])),
            tmt    |-> 2,
            seq    |-> Slice(s, Len(n_term_tmt), Len(s))]
  ELSE [deltas |-> NoDeltas, tmt |-> 1, seq |-> s]

\* the body of "for mod in modifications", the matched key left in the string
ModStep_removal_left_out(entry, modification_index, st) ==
  IF Slice(st.seq, modification_index, modification_index + Len(entry.key)) = entry.key
  THEN [deltas |-> AddDelta(st.deltas, modification_index - 1, entry.mass),
        seq    |-> st.seq,
        found  |-> TRUE]
  ELSE st

\* the body of "for mod in modifications" for one key of the table
ModStep(entry, modification_index, st) ==
  IF Slice(st.seq, modification_index, modification_index + Len(entry.key)) = entry.key
  THEN [deltas |-> AddDelta(st.deltas, modification_index - 1, entry.mass),
        seq    |-> Slice(st.seq, 0, modification_index)
                     \o Slice(st.seq, modification_index + Len(entry.key), Len(st.seq)),
        found  |-> TRUE]
  ELSE st

\* "for mod in modifications" at modification_index, over the keys lo..hi of
\* the table in order; the loop has no break, so after a match it goes on
\* over the shortened string
RECURSIVE ModScan(_, _, _, _, _)
ModScan(table, lo, hi, modification_index, st) ==
  IF lo > hi THEN st
  ELSE IF lo = hi THEN ModStep(table[lo], modification_index, st)
  ELSE Bind(ModScan(table, lo, (lo + hi) \div 2, modification_index, st), LAMBDA half :
         ModScan(table, ((lo + hi) \div 2) + 1, hi, modification_index, half))

\* the loop, had it dropped a "[" that no key matches and gone on
RECURSIVE TokenLoop_skip(_, _, _, _)
TokenLoop_skip(table, deltas, tmt, s) ==
  IF ~Contains(s, "[")
  THEN [ok |-> TRUE, deltas |-> deltas, tmt |-> tmt, seq |-> s]
  ELSE Bind(Find(s, "["), LAMBDA modification_index :
       Bind(ModScan(table, 1, Len(table), modification_index,
                    [deltas |-> deltas, seq |-> s, found |-> FALSE]), LAMBDA st :
         IF ~st.found
         THEN Bind([deltas |-> deltas,
                    seq    |-> Slice(s, 0, modification_index)
                                 \o Slice(s, modification_index + 1, Len(s))],
                   LAMBDA nx : TokenLoop_skip(table, nx.deltas, tmt, nx.seq))
         ELSE TokenLoop_skip(table, st.deltas, tmt, st.seq)))

\* while "[" in peptide_sequence
RECURSIVE TokenLoop(_, _, _, _)
TokenLoop(table, deltas, tmt, s) ==
  IF ~Contains(s, "[")
  THEN [ok |-> TRUE, deltas |-> deltas, tmt |-> tmt, seq |-> s]
  ELSE Bind(Find(s, "["), LAMBDA modification_index :
       Bind(ModScan(table, 1, Len(table), modification_index,
                    [deltas |-> deltas, seq |-> s, found |-> FALSE]), LAMBDA st :
         IF ~st.found THEN NotFound
         ELSE TokenLoop(table, st.deltas, tmt, st.seq)))

get_modifications(table, peptide_sequence) ==
  Bind(TmtScan(table, peptide_sequence), LAMBDA t :
    IF Contains(t.seq, "(") THEN NotFound
    ELSE TokenLoop(table, t.deltas, t.tmt, t.seq))

-----------------------------------------------------------------------------
(* fragments.py: compute_peptide_mass *)

\* a call's outcome: status "ok" with the returned value, or the exception raised
Returned(v) == [status |-> "ok", val |-> v]

Raised(e) == [status |-> e, val |-> <<>>]

\* the length test written as >= 30
MaxPeptideLength_inclusive == 30 - 1

MaxPeptideLength == 30

ion_type_offsets == <<ATOM_H - ATOM_H, (ATOM_O + ATOM_H) + ATOM_H>>

\* i in modification_deltas ? modification_deltas[i] : nothing added
DeltaAt(deltas, i) == IF i \in DOMAIN deltas THEN deltas[i] ELSE 0

\* forward_sum after the loop over range(0, peptide_length)
ForwardSum(s, deltas, peptide_length) ==
  IF \E i \in 0..(peptide_length - 1) : s[i + 1] \notin DOMAIN AA_MASSES
  THEN Raised("KeyError")
  ELSE Returned(RangeSum([i \in 0..(peptide_length - 1) |->
                            AA_MASSES[s[i + 1]] + DeltaAt(deltas, i)],
                         0, peptide_length - 1))

compute_peptide_mass(table, sequence) ==
  Bind(get_modifications(table, sequence), LAMBDA modifications :
    IF ~modifications.ok THEN Raised("AssertionError")
    ELSE IF Len(modifications.seq) > MaxPeptideLength THEN Returned(0 - 10000)
    ELSE Bind(ForwardSum(modifications.seq, modifications.deltas, Len(modifications.seq)),
              LAMBDA fs :
           IF fs.status # "ok" THEN fs
           ELSE Returned(fs.val + ion_type_offsets[1] + ion_type_offsets[2])))

-----------------------------------------------------------------------------
(* fragments.py: get_min_max_mass *)

\* an optional argument: None, or the value given
None == <<>>

Some(x) == <<x>>

FTMS_PPM == 20

TOF_PPM == 40

ITMS_DA == 3500

PPM_DIVISOR == 1000000

\* the pair (mass * -tol / 1000000) + mass, (mass * tol / 1000000) + mass,
\* with the sign slipped in the lower end
PpmWindow_sign_slip(mass, tol) ==
  <<FDiv(mass * tol, PPM_DIVISOR) + mass, FDiv(mass * tol, PPM_DIVISOR) + mass>>

\* the pair (mass * -tol / 1000000) + mass, (mass * tol / 1000000) + mass
PpmWindow(mass, tol) ==
  <<FDiv(mass * (0 - tol), PPM_DIVISOR) + mass, FDiv(mass * tol, PPM_DIVISOR) + mass>>

\* the pair mass - tol, mass + tol
DaWindow(mass, tol) == <<mass - tol, mass + tol>>

\* get_min_max_mass, had it validated the mass analyzer before anything else
get_min_max_mass_analyzer_first(mass_analyzer, mass, mass_tolerance, unit_mass_tolerance) ==
  IF mass_analyzer \notin {"FTMS", "TOF", "ITMS"} THEN Raised("ValueError")
  ELSE IF mass_tolerance # None /\ unit_mass_tolerance # None
  THEN IF unit_mass_tolerance[1] = "ppm"
       THEN Returned(PpmWindow(mass, mass_tolerance[1]))
       ELSE IF unit_mass_tolerance[1] = "da"
       THEN Returned(DaWindow(mass, mass_tolerance[1]))
       ELSE Raised("ValueError")
  ELSE IF mass_analyzer = "FTMS" THEN Returned(PpmWindow(mass, FTMS_PPM))
  ELSE IF mass_analyzer = "TOF" THEN Returned(PpmWindow(mass, TOF_PPM))
  ELSE Returned(DaWindow(mass, ITMS_DA))

get_min_max_mass(mass_analyzer, mass, mass_tolerance, unit_mass_tolerance) ==
  IF mass_tolerance # None /\ unit_mass_tolerance # None
  THEN IF unit_mass_tolerance[1] = "ppm"
       THEN Returned(PpmWindow(mass, mass_tolerance[1]))
       ELSE IF unit_mass_tolerance[1] = "da"
       THEN Returned(DaWindow(mass, mass_tolerance[1]))
       ELSE Raised("ValueError")
  ELSE IF mass_analyzer = "FTMS" THEN Returned(PpmWindow(mass, FTMS_PPM))
  ELSE IF mass_analyzer = "TOF" THEN Returned(PpmWindow(mass, TOF_PPM))
  ELSE IF mass_analyzer = "ITMS" THEN Returned(DaWindow(mass, ITMS_DA))
  ELSE Raised("ValueError")

-----------------------------------------------------------------------------
(* fragments.py: initialize_peaks *)

\* the clamp written one too high
MaxFragmentCharge_four == 3 + 1

MaxFragmentCharge == 3

\* the list left as the loops built it, the sort forgotten
SortedByMass_forgotten(l) == l

\* the place of row i of l in the sorted list: the rows of smaller mass come
\* before it, and so do the rows of equal mass that precede it in l
SortedPlace(l, i) ==
  Cardinality({j \in 1..Len(l) :
                 l[j].mass < l[i].mass \/ (l[j].mass = l[i].mass /\ j <= i)})

\* sorted(fragments_meta_data, key=itemgetter("mass")): stable, ascending
SortedByMass(l) ==
  Bind(<<>> \o [i \in 1..Len(l) |-> SortedPlace(l, i)], LAMBDA place :
    [p \in 1..Len(l) |-> l[CHOOSE i \in 1..Len(l) : place[i] = p]])

\* the range of the backbone loop
BackboneRange(peptide_length) == peptide_length

\* the mass of one ion, the partner's mass added after the division by charge
IonMass_beta_after_division(i, ion_type, charge, ion_type_masses, peptide_length, noncl_xl, peptide_beta_mass, xl_pos) ==
  LET charge_delta == charge * PROTON
  IN  IF noncl_xl = 1 /\ ion_type = 0 /\ i + 1 >= xl_pos
      THEN FDiv(ion_type_masses[1] + charge_delta, charge) + peptide_beta_mass
      ELSE IF noncl_xl = 1 /\ ion_type = 1 /\ i >= peptide_length - xl_pos
      THEN FDiv(ion_type_masses[2] + charge_delta, charge) + peptide_beta_mass
      ELSE FDiv(ion_type_masses[ion_type + 1] + charge_delta, charge)

\* the mass of one ion (the if / elif / else of the innermost loop)
IonMass(i, ion_type, charge, ion_type_masses, peptide_length, noncl_xl, peptide_beta_mass, xl_pos) ==
  LET charge_delta == charge * PROTON
  IN  IF noncl_xl = 1 /\ ion_type = 0 /\ i + 1 >= xl_pos
      THEN FDiv(ion_type_masses[1] + peptide_beta_mass + charge_delta, charge)
      ELSE IF noncl_xl = 1 /\ ion_type = 1 /\ i >= peptide_length - xl_pos
      THEN FDiv(ion_type_masses[2] + peptide_beta_mass + charge_delta, charge)
      ELSE FDiv(ion_type_masses[ion_type + 1] + charge_delta, charge)

\* the records appended at backbone index i: for each charge, b then y; each
\* entry carries the outcome of its get_min_max_mass call
RecordsAt(i, ion_type_masses, peptide_length, max_charge, cfg) ==
  <<>> \o
  [k \in 1..(2 * (max_charge - MIN_CHARGE + 1)) |->
     LET charge   == MIN_CHARGE + ((k - 1) \div 2)
         ion_type == (k - 1) % 2
     IN  Bind(IonMass(i, ion_type, charge, ion_type_masses, peptide_length,
                      cfg.noncl_xl, cfg.peptide_beta_mass, cfg.xl_pos), LAMBDA mass :
         Bind(get_min_max_mass(cfg.mass_analyzer, mass, cfg.mass_tolerance,
                               cfg.unit_mass_tolerance), LAMBDA w :
           [status |-> w.status,
            rec    |-> [ion_type |-> <<"b", "y">>[ion_type + 1],
                        no       |-> i + 1,
                        charge   |-> charge,
                        mass     |-> mass,
                        min_mass |-> IF w.status = "ok" THEN w.val[1] ELSE 0,
                        max_mass |-> IF w.status = "ok" THEN w.val[2] ELSE 0]]))]

\* forward_sum with the modification deltas left out
ForwardAt_deltas_left_out(s, deltas, i) == RangeSum([j \in 0..i |-> AA_MASSES[s[j + 1]]], 0, i)

\* forward_sum after the iterations 0..i of the backbone loop
ForwardAt(s, deltas, i) ==
  RangeSum([j \in 0..i |-> AA_MASSES[s[j + 1]] + DeltaAt(deltas, j)], 0, i)

\* backward_sum assigned, not accumulated
BackwardAt_last_only(s, deltas, i) == AA_MASSES[s[Len(s) - i]] + DeltaAt(deltas, Len(s) - i - 1)

\* backward_sum after the iterations 0..i of the backbone loop
BackwardAt(s, deltas, i) ==
  RangeSum([j \in 0..i |-> AA_MASSES[s[Len(s) - j]] + DeltaAt(deltas, Len(s) - j - 1)], 0, i)

\* the iterations of the backbone loop that raise KeyError on a residue
KeyErrorsAt(s, peptide_length) ==
  {i \in 0..(BackboneRange(peptide_length) - 1) :
     s[i + 1] \notin DOMAIN AA_MASSES \/ s[peptide_length - i] \notin DOMAIN AA_MASSES}

\* the backbone loop: iteration i adds to the two sums (KeyError on a residue
\* AA_MASSES does not hold) and then appends its records (ValueError from
\* get_min_max_mass); the first iteration to raise ends the loop
PeakLoop(s, deltas, max_charge, cfg) ==
  LET peptide_length == Len(s)
      per_index      == 2 * (max_charge - MIN_CHARGE + 1)
  IN  Bind(KeyErrorsAt(s, peptide_length), LAMBDA key_errors :
      Bind(IF key_errors = {} THEN BackboneRange(peptide_length)
           ELSE CHOOSE i \in key_errors : \A j \in key_errors : i <= j, LAMBDA reached :
      Bind(<<>> \o [n \in 1..reached |->
                      Bind(<<ForwardAt(s, deltas, n - 1) + ion_type_offsets[1],
                             BackwardAt(s, deltas, n - 1) + ion_type_offsets[2]>>,
                           LAMBDA ion_type_masses :
                             RecordsAt(n - 1, ion_type_masses, peptide_length,
                                       max_charge, cfg))], LAMBDA recs :
        IF \E n \in 1..reached : \E k \in 1..per_index : recs[n][k].status # "ok"
        THEN Raised("ValueError")
        ELSE IF reached < BackboneRange(peptide_length) THEN Raised("KeyError")
        ELSE Returned([fragments   |-> [k \in 1..(reached * per_index) |->
                                          recs[((k - 1) \div per_index) + 1]
                                              [((k - 1) % per_index) + 1].rec],
                       forward_sum |-> ForwardAt(s, deltas, reached - 1)]))))

\* cfg: mass_analyzer, charge, mass_tolerance, unit_mass_tolerance, noncl_xl,
\* peptide_beta_mass, xl_pos
initialize_peaks(table, sequence, cfg) ==
  Bind(get_modifications(table, sequence), LAMBDA modifications :
    IF ~modifications.ok THEN Raised("AssertionError")
    ELSE IF Len(modifications.seq) > MaxPeptideLength
    THEN Returned([peaks |-> << <<>> >>, tmt |-> 0 - 1, seq |-> <<>>, mass |-> 0])
    ELSE LET max_charge == IF cfg.charge <= MaxFragmentCharge THEN cfg.charge
                           ELSE MaxFragmentCharge
         IN  Bind(PeakLoop(modifications.seq, modifications.deltas, max_charge, cfg),
                  LAMBDA loop :
               IF loop.status # "ok" THEN loop
               ELSE Returned([peaks |-> SortedByMass(loop.val.fragments),
                              tmt   |-> modifications.tmt,
                              seq   |-> modifications.seq,
                              mass  |-> loop.val.forward_sum + ion_type_offsets[1]
                                          + ion_type_offsets[2]])))

-----------------------------------------------------------------------------
(* fragments.py: initialize_peaks_xl *)

\* crosslinker_type.upper(), on the type names the model passes
Upper(t) ==
  CASE t = "dsso" -> "DSSO"
    [] t = "dsbu" -> "DSBU"
    [] t = "bs3"  -> "BS3"
    [] OTHER      -> t

\* the configuration of a plain initialize_peaks call
PlainCfg(mass_analyzer, charge, mass_tolerance, unit_mass_tolerance) ==
  [mass_analyzer |-> mass_analyzer, charge |-> charge,
   mass_tolerance |-> mass_tolerance, unit_mass_tolerance |-> unit_mass_tolerance,
   noncl_xl |-> 0, peptide_beta_mass |-> None, xl_pos |-> None]

\* the relabeling with "no" > threshold
Relabel_past_only(df, threshold, old, new) ==
  [k \in 1..Len(df) |->
     IF df[k].no > threshold /\ df[k].ion_type = old
     THEN [df[k] EXCEPT !.ion_type = new] ELSE df[k]]

\* df.loc[(df["no"] >= threshold) & (df["ion_type"] == old), "ion_type"] = new
Relabel(df, threshold, old, new) ==
  [k \in 1..Len(df) |->
     IF df[k].no >= threshold /\ df[k].ion_type = old
     THEN [df[k] EXCEPT !.ion_type = new] ELSE df[k]]

\* df.drop_duplicates(): the first of each group of equal rows is kept
DropDuplicates(df) ==
  Bind(SelectSeq([k \in 1..Len(df) |->
                    [row |-> df[k], first |-> \A i \in 1..(k - 1) : df[i] # df[k]]],
                 LAMBDA e : e.first),
       LAMBDA kept : [k \in 1..Len(kept) |-> kept[k].row])

\* pd.DataFrame(list_out) has the columns "no" and "ion_type"
HasColumns(list_out) == list_out # <<>> /\ \A k \in 1..Len(list_out) : list_out[k] # <<>>

\* the short and long remnant tokens of a cleavable crosslinker
CleavableTokens(crosslinker_type) ==
  IF crosslinker_type = "DSSO"
  THEN [xl |-> U(<<"1", "8", "9", "6">>), s |-> U(<<"1", "8", "8", "1">>),
        l  |-> U(<<"1", "8", "8", "2">>)]
  ELSE [xl |-> U(<<"1", "8", "8", "4">>), s |-> U(<<"1", "8", "8", "6">>),
        l  |-> U(<<"1", "8", "8", "5">>)]

CleavableCharge == 2

NonCleavableCharge == 3

NonCleavableToken == U(<<"1", "8", "9", "8">>)

\* the rows of a cleavable remnant's frame after its two relabelings
RelabelRemnant(peaks, threshold_b, threshold_y, b_label, y_label) ==
  Relabel(Relabel(peaks, threshold_b, "b", b_label), threshold_y, "y", y_label)

\* the branch for DSSO, DSBU, BUURBU
PeaksXlCleavable(table, a, crosslinker_type) ==
  Bind(CleavableTokens(crosslinker_type), LAMBDA tok :
  Bind([s |-> Replace(a.sequence, tok.xl, tok.s),
        l |-> Replace(a.sequence, tok.xl, tok.l),
        without_crosslinker |-> Replace(a.sequence, tok.xl, <<>>)], LAMBDA sequence :
  Bind(PlainCfg(a.mass_analyzer, CleavableCharge, a.mass_tolerance, a.unit_mass_tolerance),
       LAMBDA cfg :
  Bind(initialize_peaks(table, sequence.s, cfg), LAMBDA out_s :
    IF out_s.status # "ok" THEN out_s
    ELSE Bind(initialize_peaks(table, sequence.l, cfg), LAMBDA out_l :
      IF out_l.status # "ok" THEN out_l
      ELSE IF out_s.val.tmt # out_l.val.tmt THEN Raised("AssertionError")
      ELSE IF ~HasColumns(out_s.val.peaks) THEN Raised("KeyError")
      ELSE LET peptide_sequence == out_l.val.seq
               threshold_b == a.crosslinker_position
               threshold_y == Len(peptide_sequence) - a.crosslinker_position + 1
           IN  Bind(RelabelRemnant(out_s.val.peaks, threshold_b, threshold_y, "b-short", "y-short")
                      \o RelabelRemnant(out_l.val.peaks, threshold_b, threshold_y,
                                        "b-long", "y-long"),
                    LAMBDA concatenated_df :
               Bind(DropDuplicates(concatenated_df), LAMBDA unique_df :
               Bind(SortedByMass(unique_df), LAMBDA df_out :
               Bind(compute_peptide_mass(table, sequence.without_crosslinker), LAMBDA mass :
                 IF mass.status # "ok" THEN mass
                 ELSE Returned([peaks |-> df_out, tmt |-> out_s.val.tmt,
                                seq |-> peptide_sequence, mass |-> mass.val]))))))))))

\* the branch for BS3, DSS
PeaksXlNonCleavable(table, a) ==
  IF a.sequence_beta = None THEN Raised("AttributeError")
  ELSE
  Bind(Replace(a.sequence, NonCleavableToken, <<>>), LAMBDA sequence_without_crosslinker :
  Bind(Replace(a.sequence_beta[1], NonCleavableToken, <<>>),
       LAMBDA sequence_beta_without_crosslinker :
  Bind(compute_peptide_mass(table, sequence_without_crosslinker), LAMBDA sequence_mass :
    IF sequence_mass.status # "ok" THEN sequence_mass
    ELSE Bind(compute_peptide_mass(table, sequence_beta_without_crosslinker),
              LAMBDA sequence_beta_mass :
      IF sequence_beta_mass.status # "ok" THEN sequence_beta_mass
      ELSE Bind([mass_analyzer |-> a.mass_analyzer, charge |-> NonCleavableCharge,
                 mass_tolerance |-> a.mass_tolerance,
                 unit_mass_tolerance |-> a.unit_mass_tolerance,
                 noncl_xl |-> 1, peptide_beta_mass |-> sequence_beta_mass.val,
                 xl_pos |-> a.crosslinker_position], LAMBDA cfg :
           Bind(initialize_peaks(table, a.sequence, cfg), LAMBDA out :
             IF out.status # "ok" THEN out
             ELSE IF ~HasColumns(out.val.peaks) THEN Raised("KeyError")
             ELSE LET threshold_b_alpha == a.crosslinker_position
                      threshold_y_alpha == Len(out.val.seq) - a.crosslinker_position + 1
                  IN  Bind(Relabel(Relabel(out.val.peaks, threshold_b_alpha, "b", "b-xl"),
                                   threshold_y_alpha, "y", "y-xl"), LAMBDA df_out :
                      Bind(DropDuplicates(df_out), LAMBDA unique_df :
                        Returned([peaks |-> SortedByMass(unique_df),
                                  tmt |-> out.val.tmt, seq |-> out.val.seq,
                                  mass |-> sequence_mass.val])))))))))

\* a: sequence, mass_analyzer, crosslinker_position, crosslinker_type,
\* mass_tolerance, unit_mass_tolerance, sequence_beta
initialize_peaks_xl(table, a) ==
  LET crosslinker_type == Upper(a.crosslinker_type)
  IN  IF crosslinker_type \in {"DSSO", "DSBU", "BUURBU"}
      THEN PeaksXlCleavable(table, a, crosslinker_type)
      ELSE IF crosslinker_type \in {"BS3", "DSS"}
      THEN PeaksXlNonCleavable(table, a)
      ELSE Raised("ValueError")

-----------------------------------------------------------------------------
(* Inputs: sequences are built from pieces (a residue letter, a terminal     *)
(* marker, a modification token, an unknown token), so that what a sequence  *)
(* is made of is known independently of how the code parses it.              *)

PieceText ==
  "G" :> <<"G">> @@ "K" :> <<"K">> @@ "-" :> <<"-">> @@ "[" :> <<"[">> @@
  "(ox)" :> <<"(", "o", "x", ")">> @@
  "[UNIMOD:4]" :> U(<<"4">>) @@
  "[UNIMOD:368]" :> U(<<"3", "6", "8">>) @@
  "[UNIMOD:737]" :> U(<<"7", "3", "7">>) @@
  "[UNIMOD:214]" :> U(<<"2", "1", "4">>) @@
  "[UNIMOD:999]" :> U(<<"9", "9", "9">>) @@
  "[UNIMOD:1896]" :> U(<<"1", "8", "9", "6">>) @@
  "[UNIMOD:1881]" :> U(<<"1", "8", "8", "1">>) @@
  "[UNIMOD:1882]" :> U(<<"1", "8", "8", "2">>) @@
  "[UNIMOD:1885]" :> U(<<"1", "8", "8", "5">>) @@
  "[UNIMOD:1886]" :> U(<<"1", "8", "8", "6">>) @@
  "[UNIMOD:1884]" :> U(<<"1", "8", "8", "4">>) @@
  "[UNIMOD:1898]" :> U(<<"1", "8", "9", "8">>) @@
  "[X]" :> <<"[", "X", "]">> @@
  "_" :> <<"_">> @@ "C" :> <<"C">> @@ "(tm)" :> <<"(", "t", "m", ")">>

\* the text of a sequence of pieces
Text(pieces) == Flatten([k \in 1..Len(pieces) |-> PieceText[pieces[k]]], 1, Len(pieces))

\* every sequence of at most n pieces of P
PieceSeqs(P, n) == UNION {[1..k -> P] : k \in 0..n}

\* n copies of piece p
Run(p, n) == [k \in 1..n |-> p]

MaxPieces == 3

MaxCharge == 4

LongSlack == 1

PeakPieces == {"G", "K", "-", "(ox)", "[UNIMOD:368]", "[UNIMOD:737]", "[UNIMOD:999]"}

\* sequences around the length limit: a run of G with a short head and tail
LongSeqs ==
  {pre \o Run("G", n) \o suf :
     pre \in {<<>>, <<"[UNIMOD:737]", "-">>, <<"[UNIMOD:4]">>},
     n   \in (29 - LongSlack)..(30 + LongSlack),
     suf \in {<<>>, <<"K">>, <<"K", "[UNIMOD:4]">>, <<"[UNIMOD:999]">>, <<"(ox)">>}}

Analyzers == {"FTMS", "TOF", "ITMS", "QTOF"}

\* a compute_peptide_mass call is pending
InitComputePeptideMass ==
  \E p \in PieceSeqs({"G", "K", "-", "[", "(ox)", "[UNIMOD:4]", "[UNIMOD:368]",
                      "[UNIMOD:737]", "[UNIMOD:999]"}, MaxPieces) \cup LongSeqs :
    req = [op |-> "compute_peptide_mass", pieces |-> p, a |-> <<>>]

MaxXlPos == 2

\* an initialize_peaks call is pending: every sequence under the analyzer
\* defaults, the shorter ones under every tolerance pair as well, and calls
\* with the non-cleavable flag, a partner mass and a crosslinker position
InitInitializePeaks ==
  \/ \E p \in PieceSeqs(PeakPieces, MaxPieces) \cup LongSeqs
                \cup {<<"K", "G", "[UNIMOD:368]", "[UNIMOD:368]">>,
                      <<"G", "[UNIMOD:368]", "[UNIMOD:368]", "K">>} :
       \E an \in Analyzers, c \in 1..MaxCharge :
         req = [op |-> "initialize_peaks", pieces |-> p, a |-> PlainCfg(an, c, None, None)]
  \/ \E p \in PieceSeqs(PeakPieces, MaxPieces - 1) :
       \E an \in {"FTMS", "QTOF"}, c \in 1..MaxCharge,
          t \in {<<None, None>>, <<Some(10), Some("ppm")>>, <<Some(500), Some("da")>>,
                 <<Some(0 - 10), Some("ppm")>>, <<Some(0 - 500), Some("da")>>,
                 <<Some(10), None>>, <<None, Some("ppm")>>, <<Some(10), Some("mz")>>} :
         req = [op |-> "initialize_peaks", pieces |-> p, a |-> PlainCfg(an, c, t[1], t[2])]
  \/ \E p \in PieceSeqs({"G", "K", "[UNIMOD:4]", "[UNIMOD:737]"}, MaxPieces) :
       \E c \in 1..MaxCharge, pos \in 1..MaxXlPos :
         req = [op |-> "initialize_peaks", pieces |-> p,
                a |-> [PlainCfg("FTMS", c, None, None) EXCEPT
                         !.noncl_xl = 1,
                         !.peptide_beta_mass = AA_MASSES["G"] + AA_MASSES["K"]
                                                 + ion_type_offsets[1] + ion_type_offsets[2],
                         !.xl_pos = pos]]

\* a _get_modifications call is pending: every short sequence, as it is and
\* behind an n-terminal isobaric tag
InitGetModifications ==
  \E p \in PieceSeqs({"G", "K", "-", "(ox)", "[UNIMOD:4]", "[UNIMOD:368]", "[UNIMOD:737]",
                      "[UNIMOD:999]"}, MaxPieces),
     pre \in {<<>>, <<"[UNIMOD:737]", "-">>, <<"[UNIMOD:214]", "-">>, <<"[UNIMOD:214]">>} :
    req = [op |-> "_get_modifications", pieces |-> pre \o p, a |-> <<>>]

XlSeqs ==
  PieceSeqs({"G", "K", "[UNIMOD:1896]", "[UNIMOD:1898]"}, MaxPieces)
  \cup {<<"K", "[UNIMOD:1884]", "G">>, <<"[UNIMOD:737]", "-", "K", "[UNIMOD:1896]", "G">>,
        <<"G", "[UNIMOD:999]">>}
  \cup {Run("G", 30) \o <<"K", t>> : t \in {"[UNIMOD:1896]", "[UNIMOD:1898]"}}
  \cup {<<"G", "K", t, "G", "K">> : t \in {"[UNIMOD:1896]", "[UNIMOD:1884]", "[UNIMOD:1898]"}}

\* an initialize_peaks_xl call is pending
InitInitializePeaksXl ==
  \E p \in XlSeqs, pos \in 1..MaxXlPos, ty \in {"DSSO", "dsbu", "BUURBU", "BS3", "DSS", "XYZ"} :
    \E t \in {<<None, None>>, <<Some(500), Some("da")>>},
       beta \in {None, Some(Text(<<"G", "K", "[UNIMOD:1898]">>))} :
      req = [op |-> "initialize_peaks_xl", pieces |-> p,
             a |-> [sequence |-> Text(p), mass_analyzer |-> "FTMS",
                    crosslinker_position |-> pos, crosslinker_type |-> ty,
                    mass_tolerance |-> t[1], unit_mass_tolerance |-> t[2],
                    sequence_beta |-> beta]]

NoRet == [status |-> "pending", val |-> <<>>]

Init ==
  /\ MOD_MASSES = BASE_MOD_MASSES
  /\ (InitGetModifications \/ InitComputePeptideMass \/ InitInitializePeaks
        \/ InitInitializePeaksXl)
  /\ ret = NoRet
  /\ pc = "call"

GetModifications ==
  /\ pc = "call"
  /\ req.op = "_get_modifications"
  /\ \E sequence \in {Text(req.pieces)} : ret' = Returned(get_modifications(MOD_MASSES, sequence))
  /\ pc' = "done"
  /\ UNCHANGED <<MOD_MASSES, req>>

ComputePeptideMass ==
  /\ pc = "call"
  /\ req.op = "compute_peptide_mass"
  /\ \E sequence \in {Text(req.pieces)} : ret' = compute_peptide_mass(MOD_MASSES, sequence)
  /\ pc' = "done"
  /\ UNCHANGED <<MOD_MASSES, req>>

InitializePeaks ==
  /\ pc = "call"
  /\ req.op = "initialize_peaks"
  /\ \E sequence \in {Text(req.pieces)} : ret' = initialize_peaks(MOD_MASSES, sequence, req.a)
  /\ pc' = "done"
  /\ UNCHANGED <<MOD_MASSES, req>>

InitializePeaksXl ==
  /\ pc = "call"
  /\ req.op = "initialize_peaks_xl"
  /\ ret' = initialize_peaks_xl(MOD_MASSES, req.a)
  /\ pc' = "done"
  /\ UNCHANGED <<MOD_MASSES, req>>

Next == GetModifications \/ ComputePeptideMass \/ InitializePeaks \/ InitializePeaksXl

Spec == Init /\ [][Next]_vars

-----------------------------------------------------------------------------
(* _get_modifications pass by pass: while the call runs, ret holds            *)
(* modification_deltas, tmt_n_term and peptide_sequence                       *)

InitTokenLoop ==
  /\ MOD_MASSES = BASE_MOD_MASSES
  /\ InitGetModifications
  /\ ret = NoRet
  /\ pc = "call"

\* the terminal scan and the test for "(": the call returns None, or reaches
\* the while loop
EnterTokenLoop ==
  /\ pc = "call"
  /\ \E t \in {TmtScan(MOD_MASSES, Text(req.pieces))} :
       IF Contains(t.seq, "(")
       THEN ret' = Returned(NotFound) /\ pc' = "done"
       ELSE ret' = [status |-> "pending", val |-> t] /\ pc' = "loop"
  /\ UNCHANGED <<MOD_MASSES, req>>

\* one pass of the while loop: the for loop over the keys at the first "[",
\* then None when no key matched
TokenLoopPass ==
  /\ pc = "loop"
  /\ Contains(ret.val.seq, "[")
  /\ \E st \in {ModScan(MOD_MASSES, 1, Len(MOD_MASSES), Find(ret.val.seq, "["),
                        [deltas |-> ret.val.deltas, seq |-> ret.val.seq, found |-> FALSE])} :
       IF ~st.found
       THEN ret' = Returned(NotFound) /\ pc' = "done"
       ELSE /\ ret' = [status |-> "pending",
                       val |-> [deltas |-> st.deltas, tmt |-> ret.val.tmt, seq |-> st.seq]]
            /\ pc' = "loop"
  /\ UNCHANGED <<MOD_MASSES, req>>

\* no "[" is left: the loop ends and the triple is returned
TokenLoopExit ==
  /\ pc = "loop"
  /\ ~Contains(ret.val.seq, "[")
  /\ ret' = Returned([ok |-> TRUE, deltas |-> ret.val.deltas, tmt |-> ret.val.tmt,
                      seq |-> ret.val.seq])
  /\ pc' = "done"
  /\ UNCHANGED <<MOD_MASSES, req>>

NextTokenLoop == EnterTokenLoop \/ TokenLoopPass \/ TokenLoopExit

SpecTokenLoop == InitTokenLoop /\ [][NextTokenLoop]_vars

-----------------------------------------------------------------------------
(* get_min_max_mass called on its own *)

MaxMassStep == 4

MassStep == 2500000

InitTolerance ==
  /\ MOD_MASSES = BASE_MOD_MASSES
  /\ \E an \in Analyzers, k \in 0..MaxMassStep,
        tol \in {None, Some(0), Some(10), Some(0 - 10), Some(50)},
        unit \in {None, Some("ppm"), Some("da"), Some("mz")} :
       req = [op |-> "get_min_max_mass", pieces |-> <<>>,
              a |-> [mass_analyzer |-> an, mass |-> k * MassStep - 99466,
                     mass_tolerance |-> tol, unit_mass_tolerance |-> unit]]
  /\ ret = NoRet
  /\ pc = "call"

GetMinMaxMass ==
  /\ pc = "call"
  /\ req.op = "get_min_max_mass"
  /\ ret' = get_min_max_mass(req.a.mass_analyzer, req.a.mass, req.a.mass_tolerance,
                             req.a.unit_mass_tolerance)
  /\ pc' = "done"
  /\ UNCHANGED <<MOD_MASSES, req>>

NextTolerance == GetMinMaxMass

SpecTolerance == InitTolerance /\ [][NextTolerance]_vars

-----------------------------------------------------------------------------
(* constants.py: update_mod_masses, in a session of calls that share MOD_MASSES *)

\* d[k] = v on an insertion-ordered dict
SetItem(d, k, v) ==
  IF HasKey(d, k)
  THEN [j \in 1..Len(d) |-> IF d[j].key = k THEN [key |-> k, mass |-> v] ELSE d[j]]
  ELSE Append(d, [key |-> k, mass |-> v])

RECURSIVE SetItems(_, _)
SetItems(d, items) ==
  IF items = <<>> THEN d
  ELSE Bind(SetItem(d, Head(items).key, Head(items).mass),
            LAMBDA nx : SetItems(nx, Tail(items)))

\* d | e: a new dict
DictUnion(d, e) == SetItems(d, e)

\* update_mod_masses, had it merged into the shared table and returned it
update_mod_masses_in_place(table, mods) ==
  IF mods = None \/ mods = Some([stat_mods |-> <<>>, var_mods |-> <<>>])
  THEN [result |-> Returned(table), global |-> table]
  ELSE LET values == mods[1].stat_mods \o mods[1].var_mods
       IN  IF \E k \in 1..Len(values) : ~values[k].numeric
           THEN [result |-> Raised("AssertionError"), global |-> table]
           ELSE Bind(SetItems(<<>>, [k \in 1..Len(values) |->
                                       [key |-> values[k].name, mass |-> values[k].mass]]),
                     LAMBDA mod_masses :
                       [result |-> Returned(DictUnion(table, mod_masses)),
                        global |-> DictUnion(table, mod_masses)])

\* mods: None, or Some of [stat_mods, var_mods], each the values of that dict in
\* order: [name, mass, numeric], numeric = float(mass) succeeds.
\* The outcome is the call's result and MOD_MASSES as the call leaves it.
update_mod_masses(table, mods) ==
  IF mods = None \/ mods = Some([stat_mods |-> <<>>, var_mods |-> <<>>])
  THEN [result |-> Returned(DictUnion(table, <<>>)), global |-> table]
  ELSE LET values == mods[1].stat_mods \o mods[1].var_mods
       IN  IF \E k \in 1..Len(values) : ~values[k].numeric
           THEN [result |-> Raised("AssertionError"), global |-> table]
           ELSE Bind(SetItems(<<>>, [k \in 1..Len(values) |->
                                       [key |-> values[k].name, mass |-> values[k].mass]]),
                     LAMBDA mod_masses :
                       [result |-> Returned(DictUnion(table, mod_masses)), global |-> table])

MaxMods == 2

EntrySeqs(n) ==
  UNION {[1..k -> ({[name |-> x, mass |-> m, numeric |-> TRUE] :
                      x \in {<<"[", "X", "]">>, U(<<"4">>)}, m \in {10000, 20000}}
                   \cup {[name |-> <<"[", "X", "]">>, mass |-> 0, numeric |-> FALSE]})] :
           k \in 0..n}

SessionSeqs == PieceSeqs({"G", "[UNIMOD:4]", "[X]"}, 2)

InitSession ==
  /\ MOD_MASSES = BASE_MOD_MASSES
  /\ req = [op |-> "none", pieces |-> <<>>, a |-> <<>>]
  /\ ret = NoRet
  /\ pc = "idle"

SessionUpdateModMasses ==
  \E mods \in {None} \cup {Some([stat_mods |-> st, var_mods |-> va]) :
                              st \in EntrySeqs(MaxMods), va \in EntrySeqs(1)} :
    LET out == update_mod_masses(MOD_MASSES, mods)
    IN  /\ req' = [op |-> "update_mod_masses", pieces |-> <<>>, a |-> mods]
        /\ ret' = out.result
        /\ MOD_MASSES' = out.global
        /\ pc' = "done"

SessionGetModifications ==
  \E p \in SessionSeqs :
    /\ req' = [op |-> "_get_modifications", pieces |-> p, a |-> <<>>]
    /\ \E sequence \in {Text(p)} : ret' = Returned(get_modifications(MOD_MASSES, sequence))
    /\ pc' = "done"
    /\ UNCHANGED MOD_MASSES

SessionComputePeptideMass ==
  \E p \in SessionSeqs :
    /\ req' = [op |-> "compute_peptide_mass", pieces |-> p, a |-> <<>>]
    /\ \E sequence \in {Text(p)} : ret' = compute_peptide_mass(MOD_MASSES, sequence)
    /\ pc' = "done"
    /\ UNCHANGED MOD_MASSES

NextSession == SessionUpdateModMasses \/ SessionGetModifications \/ SessionComputePeptideMass

SpecSession == InitSession /\ [][NextSession]_vars

-----------------------------------------------------------------------------
(* mod_string.py *)

\* where the match of \[.*?\] that starts at the first character ends: the
\* 1-based index of the nearest "]", 0 when there is none or a line break
\* comes first ("." matches no line break)
BracketEnd(seq) ==
  IF \E j \in 2..Len(seq) : seq[j] = "]"
  THEN LET j == CHOOSE j \in 2..Len(seq) :
                  seq[j] = "]" /\ \A i \in 2..(j - 1) : seq[i] # "]"
       IN  IF \E i \in 2..(j - 1) : seq[i] = "\n" THEN 0 ELSE j
  ELSE 0

\* the substitution without the hyphen alternative
RECURSIVE StripMods_keep_hyphen(_)
StripMods_keep_hyphen(seq) ==
  IF seq = <<>> THEN <<>>
  ELSE IF seq[1] = "[" /\ BracketEnd(seq) > 0
       THEN StripMods_keep_hyphen(Slice(seq, BracketEnd(seq), Len(seq)))
       ELSE <<seq[1]>> \o StripMods_keep_hyphen(Tail(seq))

\* re.sub("\[.*?\]|\-", "", seq)
RECURSIVE StripMods(_)
StripMods(seq) ==
  IF seq = <<>> THEN <<>>
  ELSE IF seq[1] = "[" /\ BracketEnd(seq) > 0
       THEN StripMods(Slice(seq, BracketEnd(seq), Len(seq)))
       ELSE IF seq[1] = "-" THEN StripMods(Tail(seq))
       ELSE <<seq[1]>> \o StripMods(Tail(seq))

internal_without_mods(sequences) == [k \in 1..Len(sequences) |-> StripMods(sequences[k])]

MaxChars == 4

Strings(n) == UNION {[1..k -> {"G", "[", "]", "-", "\n"}] : k \in 0..n}

InitModString ==
  /\ MOD_MASSES = BASE_MOD_MASSES
  /\ \E l \in {<<>>} \cup {<<x>> : x \in Strings(MaxChars)}
                \cup {<<x, y>> : x, y \in Strings(1)} :
       req = [op |-> "internal_without_mods", pieces |-> <<>>, a |-> l]
  /\ ret = NoRet
  /\ pc = "call"

InternalWithoutMods ==
  /\ pc = "call"
  /\ req.op = "internal_without_mods"
  /\ ret' = Returned(internal_without_mods(req.a))
  /\ pc' = "done"
  /\ UNCHANGED <<MOD_MASSES, req>>

NextModString == InternalWithoutMods

SpecModString == InitModString /\ [][NextModString]_vars

-----------------------------------------------------------------------------
(* mod_string.py: parse_modstrings.  An alphabet is its items in dict order,  *)
(* [key, value], the keys non-empty strings.                                  *)

\* a call that raises, with the text the error message names
RaisedWith(e, v) == [status |-> e, val |-> v]

\* the place of key i in sorted(alphabet, key=len), reverse=True left out
PatternPlace_shortest_first(alphabet, i) ==
  Cardinality({j \in 1..Len(alphabet) :
                 \/ Len(alphabet[j].key) < Len(alphabet[i].key)
                 \/ (Len(alphabet[j].key) = Len(alphabet[i].key) /\ j <= i)})

\* the place of key i in sorted(alphabet, key=len, reverse=True): the longer
\* keys come before it, and so do the keys of equal length that precede it
PatternPlace(alphabet, i) ==
  Cardinality({j \in 1..Len(alphabet) :
                 \/ Len(alphabet[j].key) > Len(alphabet[i].key)
                 \/ (Len(alphabet[j].key) = Len(alphabet[i].key) /\ j <= i)})

\* pattern = sorted(alphabet, key=len, reverse=True): the alternatives of the
\* compiled pattern, in order
PatternOf(alphabet) ==
  Bind(<<>> \o [i \in 1..Len(alphabet) |-> PatternPlace(alphabet, i)], LAMBDA place :
    [p \in 1..Len(alphabet) |-> alphabet[CHOOSE i \in 1..Len(alphabet) : place[i] = p].key])

\* the alternative that matches at position p of s: the first of the pattern
\* that s continues with, 0 when there is none
MatchAt(pattern, s, p) ==
  IF \E j \in 1..Len(pattern) : Slice(s, p, p + Len(pattern[j])) = pattern[j]
  THEN CHOOSE j \in 1..Len(pattern) :
         /\ Slice(s, p, p + Len(pattern[j])) = pattern[j]
         /\ \A i \in 1..(j - 1) : Slice(s, p, p + Len(pattern[i])) # pattern[i]
  ELSE 0

\* the matches of the pattern in s from position p on, left to right and not
\* overlapping; a character no alternative matches at is stepped over
RECURSIVE Scan(_, _, _)
Scan(pattern, s, p) ==
  IF p >= Len(s) THEN <<>>
  ELSE Bind(MatchAt(pattern, s, p), LAMBDA j :
         IF j = 0 THEN Scan(pattern, s, p + 1)
         ELSE <<[start |-> p, elem |-> pattern[j]]>> \o Scan(pattern, s, p + Len(pattern[j])))

\* r_pattern.findall(sequence)
FindAll(pattern, s) ==
  Bind(Scan(pattern, s, 0), LAMBDA found : [k \in 1..Len(found) |-> found[k].elem])

\* "".join(split_seq)
Join(split_seq) == Flatten(split_seq, 1, Len(split_seq))

\* difflib.SequenceMatcher.find_longest_match(alo, ahi, blo, bhi): <<i, j, k>>
\* with a[i:i+k] = b[j:j+k], k the largest there is, then i the smallest,
\* then j the smallest; k = 0 when the two ranges share no character
LongestMatch(a, alo, ahi, b, blo, bhi) ==
  LET blocks == {t \in (alo..(ahi - 1)) \X (blo..(bhi - 1)) \X (1..(ahi - alo)) :
                   /\ t[1] + t[3] <= ahi
                   /\ t[2] + t[3] <= bhi
                   /\ \A x \in 1..t[3] : a[t[1] + x] = b[t[2] + x]}
  IN  IF blocks = {} THEN <<alo, blo, 0>>
      ELSE CHOOSE t \in blocks :
             \A u \in blocks :
               \/ u[3] < t[3]
               \/ (u[3] = t[3] /\ u[1] > t[1])
               \/ (u[3] = t[3] /\ u[1] = t[1] /\ u[2] >= t[2])

\* the characters of the "-" lines of difflib.ndiff(a, b) within a[alo:ahi]
\* against b[blo:bhi]: the longest match splits the ranges in two, and a
\* range of a with no match in its range of b is deleted whole
RECURSIVE NdiffDeleted(_, _, _, _, _, _)
NdiffDeleted(a, alo, ahi, b, blo, bhi) ==
  IF alo >= ahi THEN <<>>
  ELSE Bind(LongestMatch(a, alo, ahi, b, blo, bhi), LAMBDA m :
         IF m[3] = 0 THEN Slice(a, alo, ahi)
         ELSE NdiffDeleted(a, alo, m[1], b, blo, m[2])
                \o NdiffDeleted(a, m[1] + m[3], ahi, b, m[2] + m[3], bhi))

\* alphabet[aa]
AlphabetValue(alphabet, aa) ==
  alphabet[CHOOSE j \in 1..Len(alphabet) : alphabet[j].key = aa].value

split_modstring(alphabet, sequence, translate, filter) ==
  Bind(FindAll(PatternOf(alphabet), sequence), LAMBDA split_seq :
    IF Join(split_seq) = sequence
    THEN IF translate
         THEN Returned([k \in 1..Len(split_seq) |-> AlphabetValue(alphabet, split_seq[k])])
         ELSE Returned(split_seq)
    ELSE IF filter THEN Returned(<<0>>)
    ELSE Bind(Join(split_seq), LAMBDA joined :
           RaisedWith("ValueError",
                      NdiffDeleted(sequence, 0, Len(sequence), joined, 0, Len(joined)))))

\* map(split_modstring, sequences, repeat(regex_pattern)): item k is the outcome
\* of taking the k-th element off the map object
parse_modstrings(sequences, alphabet, translate, filter) ==
  [k \in 1..Len(sequences) |-> split_modstring(alphabet, sequences[k], translate, filter)]

MaxParseChars == 4

ParseStrings(n) == UNION {[1..k -> {"A", "B", "C"}] : k \in 0..n}

\* a parse_modstrings call is pending: a batch of one sequence, or of two
InitParse ==
  /\ MOD_MASSES = BASE_MOD_MASSES
  /\ \E alphabet \in { << [key |-> <<"A">>, value |-> 1], [key |-> <<"C">>, value |-> 2],
                          [key |-> <<"A", "B">>, value |-> 3] >>,
                       << [key |-> <<"A", "B">>, value |-> 1],
                          [key |-> <<"B", "A">>, value |-> 2] >> },
        translate \in BOOLEAN, filter \in BOOLEAN :
       \/ \E x \in ParseStrings(MaxParseChars) :
            req = [op |-> "parse_modstrings", pieces |-> <<>>,
                   a |-> [sequences |-> <<x>>, alphabet |-> alphabet,
                          translate |-> translate, filter |-> filter]]
       \/ \E x \in ParseStrings(2), y \in ParseStrings(2) :
            req = [op |-> "parse_modstrings", pieces |-> <<>>,
                   a |-> [sequences |-> <<x, y>>, alphabet |-> alphabet,
                          translate |-> translate, filter |-> filter]]
  /\ ret = NoRet
  /\ pc = "call"

ParseModstrings ==
  /\ pc = "call"
  /\ req.op = "parse_modstrings"
  /\ ret' = Returned(parse_modstrings(req.a.sequences, req.a.alphabet, req.a.translate,
                                      req.a.filter))
  /\ pc' = "done"
  /\ UNCHANGED <<MOD_MASSES, req>>

NextParse == ParseModstrings

SpecParse == InitParse /\ [][NextParse]_vars

-----------------------------------------------------------------------------
(* mod_string.py: internal_to_mod_names.  The two strings returned for a      *)
(* sequence are kept as the fields they are formatted from.                   *)

\* MOD_NAMES, in dict order
MOD_NAMES ==
  << [key |-> U(<<"7", "3", "7">>), name |-> "TMT_6"],
     [key |-> U(<<"2", "0", "1", "6">>), name |-> "TMT_Pro"],
     [key |-> U(<<"2", "1">>), name |-> "Phospho"],
     [key |-> U(<<"4">>), name |-> "Carbamidomethyl"],
     [key |-> U(<<"3", "5">>), name |-> "Oxidation"],
     [key |-> U(<<"2", "1", "4">>), name |-> "iTRAQ4"],
     [key |-> U(<<"7", "3", "0">>), name |-> "iTRAQ8"] >>

\* the cells shared by the two inner functions: pos = [0], offset = [0], match_list = []
InitialCells == [pos |-> 0, offset |-> 0, match_list |-> <<>>]

\* the end of msp_string_mapper, the three resetting statements left out
ResetCells_left_out(cells) == cells

\* pos[0] = 0; offset[0] = 0; match_list.clear()
ResetCells(cells) == InitialCells

\* regex.sub(replace_and_store, seq), the string: every match replaced by ""
RemoveMatches(found, s) ==
  Flatten([i \in 1..Len(s) |->
             IF \E k \in 1..Len(found) :
                  found[k].start < i /\ i <= found[k].start + Len(found[k].elem)
             THEN <<>> ELSE <<s[i]>>],
          1, Len(s))

\* regex.sub(replace_and_store, seq), the cells: replace_and_store on each
\* match from left to right
StoreMatches(found, cells) ==
  Bind(<<>> \o [k \in 1..Len(found) |->
                  [name |-> MOD_NAMES[CHOOSE j \in 1..Len(MOD_NAMES) :
                                        MOD_NAMES[j].key = found[k].elem].name,
                   pos  |-> found[k].start - 1
                              - (cells.offset
                                 + RangeSum([j \in 1..(k - 1) |-> Len(found[j].elem)], 1, k - 1))]],
       LAMBDA stored :
         [pos        |-> IF stored = <<>> THEN cells.pos ELSE stored[Len(stored)].pos,
          offset     |-> cells.offset
                           + RangeSum([j \in 1..Len(found) |-> Len(found[j].elem)], 1, Len(found)),
          match_list |-> cells.match_list \o stored])

\* seq[pos] for -len(seq) <= pos < len(seq), a negative pos counting from the end
PyIndex(s, pos) == IF pos >= 0 THEN s[pos + 1] ELSE s[Len(s) + pos + 1]

\* msp_string_mapper on one sequence, from the cells as it finds them: the
\* outcome and the cells as it leaves them
msp_string_mapper(seq, cells) ==
  Bind(Scan([j \in 1..Len(MOD_NAMES) |-> MOD_NAMES[j].key], seq, 0), LAMBDA found :
  Bind(RemoveMatches(found, seq), LAMBDA stripped :
  Bind(StoreMatches(found, cells), LAMBDA stored :
    IF \E k \in 1..Len(stored.match_list) :
         ~(0 - Len(stripped) <= stored.match_list[k].pos
             /\ stored.match_list[k].pos < Len(stripped))
    THEN [result |-> Raised("IndexError"), cells |-> stored]
    ELSE [result |->
            Returned([mod |-> [count  |-> Len(stored.match_list),
                               fields |-> [k \in 1..Len(stored.match_list) |->
                                             [pos     |-> stored.match_list[k].pos,
                                              residue |-> PyIndex(stripped,
                                                                  stored.match_list[k].pos),
                                              name    |-> stored.match_list[k].name]]],
                      mod_string |-> [seq   |-> stripped,
                                      names |-> [k \in 1..Len(stored.match_list) |->
                                                   [name    |-> stored.match_list[k].name,
                                                    residue |-> PyIndex(stripped,
                                                                  stored.match_list[k].pos),
                                                    pos     |-> stored.match_list[k].pos]]]]),
          cells |-> ResetCells(stored)])))

MaxNamePieces == 3

NamePieces == {"G", "K", "-", "[UNIMOD:4]", "[UNIMOD:737]", "[UNIMOD:999]"}

\* an internal_to_mod_names call starts, on a batch of one sequence or of two;
\* while it runs, ret holds the results so far and the cells
InitModNames ==
  /\ MOD_MASSES = BASE_MOD_MASSES
  /\ \/ \E x \in PieceSeqs(NamePieces, MaxNamePieces) :
          req = [op |-> "internal_to_mod_names", pieces |-> <<x>>, a |-> <<Text(x)>>]
     \/ \E x \in PieceSeqs(NamePieces, 2), y \in PieceSeqs(NamePieces, 2) :
          req = [op |-> "internal_to_mod_names", pieces |-> <<x, y>>, a |-> <<Text(x), Text(y)>>]
  /\ ret = [status |-> "pending", val |-> [out |-> <<>>, cells |-> InitialCells]]
  /\ pc = "map"

\* the list comprehension takes the next sequence
MspStringMapper ==
  /\ pc = "map"
  /\ Len(ret.val.out) < Len(req.a)
  /\ \E step \in {msp_string_mapper(req.a[Len(ret.val.out) + 1], ret.val.cells)} :
       IF step.result.status # "ok"
       THEN ret' = step.result /\ pc' = "done"
       ELSE /\ ret' = [status |-> "pending",
                       val |-> [out |-> Append(ret.val.out, step.result.val),
                                cells |-> step.cells]]
            /\ pc' = "map"
  /\ UNCHANGED <<MOD_MASSES, req>>

\* the list is complete and returned
InternalToModNames ==
  /\ pc = "map"
  /\ Len(ret.val.out) = Len(req.a)
  /\ ret' = Returned(ret.val.out)
  /\ pc' = "done"
  /\ UNCHANGED <<MOD_MASSES, req>>

NextModNames == MspStringMapper \/ InternalToModNames

SpecModNames == InitModNames /\ [][NextModNames]_vars

-----------------------------------------------------------------------------
(* mod_string.py: maxquant_to_internal *)

\* MAXQUANT_VAR_MODS, in dict order
MAXQUANT_VAR_MODS ==
  << [key |-> <<"(", "o", "x", ")">>,
      val |-> U(<<"3", "5">>)],
     [key |-> <<"(", "O", "x", "i", "d", "a", "t", "i", "o", "n", " ", "(", "M", ")", ")">>,
      val |-> U(<<"3", "5">>)],
     [key |-> <<"(", "t", "m", ")">>,
      val |-> U(<<"7", "3", "7">>)],
     [key |-> <<"_", "(", "t", "m", ")">>,
      val |-> <<"_">> \o U(<<"7", "3", "7">>) \o <<"-">>],
     [key |-> <<"K", "(", "t", "m", ")">>,
      val |-> <<"K">> \o U(<<"7", "3", "7">>)],
     [key |-> <<"(", "i", "4", ")">>,
      val |-> U(<<"2", "1", "4">>)],
     [key |-> <<"_", "(", "i", "4", ")">>,
      val |-> <<"_">> \o U(<<"2", "1", "4">>) \o <<"-">>],
     [key |-> <<"K", "(", "i", "4", ")">>,
      val |-> <<"K">> \o U(<<"2", "1", "4">>)],
     [key |-> <<"(", "i", "8", ")">>,
      val |-> U(<<"7", "3", "0">>)],
     [key |-> <<"_", "(", "i", "8", ")">>,
      val |-> <<"_">> \o U(<<"7", "3", "0">>) \o <<"-">>],
     [key |-> <<"K", "(", "i", "8", ")">>,
      val |-> <<"K">> \o U(<<"7", "3", "0">>)],
     [key |-> <<"(", "t", "m", "p", ")">>,
      val |-> U(<<"2", "0", "1", "6">>)],
     [key |-> <<"_", "(", "t", "m", "p", ")">>,
      val |-> <<"_">> \o U(<<"2", "0", "1", "6">>) \o <<"-">>],
     [key |-> <<"K", "(", "t", "m", "p", ")">>,
      val |-> <<"K">> \o U(<<"2", "0", "1", "6">>)],
     [key |-> <<"(", "p", "h", ")">>,
      val |-> U(<<"2", "1">>)],
     [key |-> <<"(", "P", "h", "o", "s", "p", "h", "o", " ", "(", "S", "T", "Y", ")", ")">>,
      val |-> U(<<"2", "1">>)],
     [key |-> <<"(", "d", "e", ")">>,
      val |-> U(<<"2", "3">>)],
     [key |-> <<"(", "D", "e", "h", "y", "d", "r", "a", "t", "e", "d", " ", "(", "S", "T", ")", ")">>,
      val |-> U(<<"2", "3">>)],
     [key |-> <<"K", "(", "L", "y", "s", "8", ")">>,
      val |-> <<"K">> \o U(<<"2", "5", "9">>)],
     [key |-> <<"R", "(", "A", "r", "g", "1", "0", ")">>,
      val |-> <<"R">> \o U(<<"2", "6", "7">>)],
     [key |-> <<"C", "(", "C", "a", "r", "b", "a", "m", "i", "d", "o", "m", "e", "t", "h", "y", "l", " ", "(", "C", ")", ")">>,
      val |-> <<"C">> \o U(<<"4">>)] >>

\* x in d.values()
HasValue(d, x) == \E j \in 1..Len(d) : d[j].val = x

\* the place of a key in a dict, 0 when it is none of the keys
KeyPlace(d, key) ==
  IF \E j \in 1..Len(d) : d[j].key = key
  THEN CHOOSE j \in 1..Len(d) : d[j].key = key
  ELSE 0

\* {**a, **b}: the keys of a keep their place and take the value b has for
\* them, the other keys of b follow
Merge(a, b) ==
  [j \in 1..Len(a) |->
     IF KeyPlace(b, a[j].key) = 0 THEN a[j] ELSE b[KeyPlace(b, a[j].key)]]
  \o SelectSeq(b, LAMBDA e : KeyPlace(a, e.key) = 0)

\* find_replacement, the key that is looked up: a match that holds "_" is
\* marked "^" at offset 0 and "$" elsewhere
ReplacementKey(match) ==
  IF Contains(match.elem, "_")
  THEN IF match.start = 0 THEN <<"^">> \o match.elem ELSE match.elem \o <<"$">>
  ELSE match.elem

\* regex.sub(find_replacement, seq), the alternatives of regex being the keys
\* of replacements in their order: KeyError on the first match whose key
\* replacements does not hold
Substitute(replacements, seq) ==
  Bind(Scan([j \in 1..Len(replacements) |-> replacements[j].key], seq, 0), LAMBDA found :
    IF \E k \in 1..Len(found) : KeyPlace(replacements, ReplacementKey(found[k])) = 0
    THEN RaisedWith("KeyError",
           ReplacementKey(found[CHOOSE k \in 1..Len(found) :
             /\ KeyPlace(replacements, ReplacementKey(found[k])) = 0
             /\ \A j \in 1..(k - 1) :
                  KeyPlace(replacements, ReplacementKey(found[j])) # 0]))
    ELSE Returned(
           Flatten([i \in 1..Len(seq) |->
                      IF \E k \in 1..Len(found) : found[k].start = i - 1
                      THEN replacements[KeyPlace(replacements,
                             ReplacementKey(found[CHOOSE k \in 1..Len(found) :
                                                    found[k].start = i - 1]))].val
                      ELSE IF \E k \in 1..Len(found) :
                                found[k].start < i /\ i <= found[k].start + Len(found[k].elem)
                           THEN <<>>
                           ELSE <<seq[i]>>],
                   1, Len(seq))))

\* regex.sub(find_replacement, seq)[1, -1]: the str is indexed by a tuple,
\* which raises TypeError
ConvertOne(replacements, seq) ==
  Bind(Substitute(replacements, seq), LAMBDA sub :
    IF sub.status # "ok" THEN sub ELSE Raised("TypeError"))

maxquant_to_internal(sequences, fixed_mods) ==
  IF \E j \in 1..Len(fixed_mods) : ~HasValue(MAXQUANT_VAR_MODS, fixed_mods[j].val)
  THEN Raised("AssertionError")
  ELSE Bind([k \in 1..Len(sequences) |->
               ConvertOne(Merge(MAXQUANT_VAR_MODS, fixed_mods), sequences[k])],
            LAMBDA out :
              IF \E k \in 1..Len(out) : out[k].status # "ok"
              THEN out[CHOOSE k \in 1..Len(out) :
                         /\ out[k].status # "ok"
                         /\ \A j \in 1..(k - 1) : out[j].status = "ok"]
              ELSE Returned([k \in 1..Len(out) |-> out[k].val]))

MaxCorePieces == 2

\* the residues and the keys a MaxQuant sequence is written with here
MaxquantResidues == {"G", "K", "C"}

\* a residue first, then residues and keys
MaxquantCores(n) ==
  {<<>>} \union {<<r>> \o x : r \in MaxquantResidues,
                              x \in PieceSeqs(MaxquantResidues \union {"(ox)", "(tm)"}, n - 1)}

\* nothing, the terminal underscore, or the terminal underscore with a key
MaxquantEnds == {<<>>, <<"_">>, <<"_", "(tm)">>}

\* a maxquant_to_internal call is pending: no sequence, one, or two
InitMaxquant ==
  /\ MOD_MASSES = BASE_MOD_MASSES
  /\ \E fixed \in { << [key |-> <<"C">>, val |-> <<"C">> \o U(<<"4">>)] >>,
                    <<>>,
                    << [key |-> <<"G">>, val |-> U(<<"3", "5">>)] >>,
                    << [key |-> <<"C">>, val |-> <<"C">> \o U(<<"9", "9">>)] >> } :
       \/ req = [op |-> "maxquant_to_internal", pieces |-> <<>>, a |-> <<>>, b |-> fixed]
       \/ \E pre \in MaxquantEnds, core \in MaxquantCores(MaxCorePieces), suf \in MaxquantEnds :
            req = [op |-> "maxquant_to_internal",
                   pieces |-> << [pre |-> pre, core |-> core, suf |-> suf] >>,
                   a |-> << Text(pre \o core \o suf) >>, b |-> fixed]
       \/ \E pre \in MaxquantEnds, core \in MaxquantCores(1), suf \in MaxquantEnds,
             pre2 \in MaxquantEnds, core2 \in MaxquantCores(1) :
            req = [op |-> "maxquant_to_internal",
                   pieces |-> << [pre |-> pre, core |-> core, suf |-> suf],
                                 [pre |-> pre2, core |-> core2, suf |-> <<"_">>] >>,
                   a |-> << Text(pre \o core \o suf), Text(pre2 \o core2 \o <<"_">>) >>,
                   b |-> fixed]
  /\ ret = NoRet
  /\ pc = "call"

MaxquantToInternal ==
  /\ pc = "call"
  /\ req.op = "maxquant_to_internal"
  /\ ret' = maxquant_to_internal(req.a, req.b)
  /\ pc' = "done"
  /\ UNCHANGED <<MOD_MASSES, req>>

NextMaxquant == MaxquantToInternal

SpecMaxquant == InitMaxquant /\ [][NextMaxquant]_vars

-----------------------------------------------------------------------------
(* What a sequence of pieces is, independently of the parser *)

Done(op) == pc = "done" /\ req.op = op

ResiduePieces == {"G", "K"}

IsobaricPieces == {"[UNIMOD:737]", "[UNIMOD:214]"}

TokenPieces == {q \in DOMAIN PieceText : HasKey(BASE_MOD_MASSES, PieceText[q])}

\* no parenthesis-style token and no "[" that no key matches
TokensResolve(pieces) == \A k \in 1..Len(pieces) : pieces[k] \notin {"(ox)", "[", "[UNIMOD:999]", "[X]"}

\* a hyphen occurs only as the terminal marker after a leading isobaric tag
Linear(pieces) ==
  /\ TokensResolve(pieces)
  /\ \A k \in 1..Len(pieces) :
       pieces[k] = "-" => k = 2 /\ pieces[1] \in IsobaricPieces

BarePieces(pieces) == SelectSeq(pieces, LAMBDA q : q \in ResiduePieces)

BareLen(pieces) == Len(BarePieces(pieces))

\* the masses of the residues of a sequence of pieces
ResidueSum(pieces) ==
  RangeSum([k \in 1..Len(pieces) |->
              IF pieces[k] \in ResiduePieces THEN AA_MASSES[pieces[k]] ELSE 0],
           1, Len(pieces))

\* the masses of the modification tokens of a sequence of pieces
TokenSum(pieces) ==
  RangeSum([k \in 1..Len(pieces) |->
              IF pieces[k] \in TokenPieces
              THEN Lookup(BASE_MOD_MASSES, PieceText[pieces[k]]) ELSE 0],
           1, Len(pieces))

\* the tolerance arguments are ones get_min_max_mass accepts
WindowAccepted(a) ==
  IF a.mass_tolerance # None /\ a.unit_mass_tolerance # None
  THEN a.unit_mass_tolerance[1] \in {"ppm", "da"}
  ELSE a.mass_analyzer \in {"FTMS", "TOF", "ITMS"}

\* the tolerance and unit in effect for accepted arguments
EffectiveUnit(a) ==
  IF a.mass_tolerance # None /\ a.unit_mass_tolerance # None THEN a.unit_mass_tolerance[1]
  ELSE IF a.mass_analyzer = "ITMS" THEN "da" ELSE "ppm"

EffectiveTolerance(a) ==
  IF a.mass_tolerance # None /\ a.unit_mass_tolerance # None THEN a.mass_tolerance[1]
  ELSE IF a.mass_analyzer = "ITMS" THEN 3500
  ELSE IF a.mass_analyzer = "TOF" THEN 40 ELSE 20

ClampedCharge(charge) == IF charge <= 3 THEN charge ELSE 3

-----------------------------------------------------------------------------
(* C1..C6: the peptide mass and the fragment peaks *)

\* C1: for a linear peptide whose tokens all resolve, of bare length L in 1..30,
\* with C = min(charge, 3), initialize_peaks returns exactly (L-1)*2*C records.
C1_RecordCount ==
  (Done("initialize_peaks") /\ Linear(req.pieces) /\ BareLen(req.pieces) \in 1..30
     /\ WindowAccepted(req.a))
  => /\ ret.status = "ok"
     /\ Len(ret.val.peaks) = (BareLen(req.pieces) - 1) * 2 * ClampedCharge(req.a.charge)

\* C2 as stated: every record initialize_peaks returns has
\* min_mass <= mass <= max_mass, for every accepted analyzer and tolerance pair.
C2_WindowContainsMass ==
  (Done("initialize_peaks") /\ ret.status = "ok" /\ HasColumns(ret.val.peaks))
  => \A k \in 1..Len(ret.val.peaks) :
       /\ ret.val.peaks[k].min_mass <= ret.val.peaks[k].mass
       /\ ret.val.peaks[k].mass <= ret.val.peaks[k].max_mass

\* C2 as amended: min_mass <= mass <= max_mass holds for every record when the
\* tolerance in effect is not negative and, under a ppm window, the record's
\* mass is not negative.
C2_WindowContainsMassNonNegative ==
  (Done("initialize_peaks") /\ ret.status = "ok" /\ HasColumns(ret.val.peaks))
  => \A k \in 1..Len(ret.val.peaks) :
       (/\ EffectiveTolerance(req.a) >= 0
        /\ EffectiveUnit(req.a) = "ppm" => ret.val.peaks[k].mass >= 0)
       => /\ ret.val.peaks[k].min_mass <= ret.val.peaks[k].mass
          /\ ret.val.peaks[k].mass <= ret.val.peaks[k].max_mass

C2_Witness ==
  /\ Done("initialize_peaks") /\ ret.status = "ok" /\ HasColumns(ret.val.peaks)
  /\ req.a.mass_tolerance = Some(10) /\ req.a.unit_mass_tolerance = Some("ppm")
  /\ \E k \in 1..Len(ret.val.peaks) :
       /\ ret.val.peaks[k].min_mass < ret.val.peaks[k].mass
       /\ ret.val.peaks[k].mass < ret.val.peaks[k].max_mass

\* C3: the list initialize_peaks and initialize_peaks_xl (both branches) return
\* is in ascending order of mass, whatever the ordinals, ion types and charges.
C3_SortedByMass ==
  (pc = "done" /\ req.op \in {"initialize_peaks", "initialize_peaks_xl"}
     /\ ret.status = "ok" /\ HasColumns(ret.val.peaks))
  => \A k \in 1..(Len(ret.val.peaks) - 1) :
       ret.val.peaks[k].mass <= ret.val.peaks[k + 1].mass

C3_Witness ==
  /\ Done("initialize_peaks_xl") /\ ret.status = "ok"
  /\ Upper(req.a.crosslinker_type) = "DSSO"
  /\ \E k \in 1..Len(req.pieces) : req.pieces[k] = "[UNIMOD:1896]"
  /\ \E k \in 1..(Len(ret.val.peaks) - 1) :
       /\ ret.val.peaks[k].no > ret.val.peaks[k + 1].no
       /\ ret.val.peaks[k].charge > ret.val.peaks[k + 1].charge
       /\ ret.val.peaks[k].mass < ret.val.peaks[k + 1].mass

\* C4: a sequence with a parenthesis-style token, or a "[" that no key of the
\* table matches, makes compute_peptide_mass and initialize_peaks raise the
\* "Modification not found" error and return nothing, whatever else it holds.
C4_UnresolvedTokenFails ==
  (pc = "done" /\ req.op \in {"compute_peptide_mass", "initialize_peaks"}
     /\ ~TokensResolve(req.pieces))
  => ret = Raised("AssertionError")

C4_Witness ==
  /\ Done("initialize_peaks") /\ ret = Raised("AssertionError")
  /\ \E k \in 1..Len(req.pieces) : req.pieces[k] = "[UNIMOD:999]"
  /\ \E k \in 1..Len(req.pieces) : req.pieces[k] = "[UNIMOD:368]"
  /\ \E k \in 1..Len(req.pieces) : req.pieces[k] \in ResiduePieces

C6_MassIsSumOfParts ==
  (Done("compute_peptide_mass") /\ Linear(req.pieces) /\ BareLen(req.pieces) \in 1..30)
  => ret = [status |-> "ok",
            val |-> ResidueSum(req.pieces) + TokenSum(req.pieces)
                      + ATOM_H + (ATOM_O + ATOM_H)]

-----------------------------------------------------------------------------
(* C7, C8: the tolerance policy *)

BothGiven(a) == a.mass_tolerance # None /\ a.unit_mass_tolerance # None

\* mass * tol / 1000000
PpmOf(mass, tol) == FDiv(mass * tol, 1000000)

C8_InvalidConfigurationFails ==
  (/\ Done("get_min_max_mass")
   /\ \/ req.a.mass_analyzer \notin {"FTMS", "TOF", "ITMS"}
      \/ /\ req.a.unit_mass_tolerance # None
         /\ req.a.unit_mass_tolerance[1] \notin {"ppm", "da"})
  => ret = Raised("ValueError")

-----------------------------------------------------------------------------
(* C9: the shared table *)

\* the values supplied to an update_mod_masses call, stat_mods before var_mods
Supplied(mods) == IF mods = None THEN <<>> ELSE mods[1].stat_mods \o mods[1].var_mods

BaseKeysKept(result) ==
  /\ \A j \in 1..Len(BASE_MOD_MASSES) : HasKey(result, BASE_MOD_MASSES[j].key)
  /\ \A j \in 1..Len(BASE_MOD_MASSES) :
       (\A k \in 1..Len(Supplied(req.a)) :
          Supplied(req.a)[k].name # BASE_MOD_MASSES[j].key)
       => Lookup(result, BASE_MOD_MASSES[j].key) = BASE_MOD_MASSES[j].mass
  /\ \A j \in 1..Len(result) :
       \/ HasKey(BASE_MOD_MASSES, result[j].key)
       \/ \E k \in 1..Len(Supplied(req.a)) : Supplied(req.a)[k].name = result[j].key

-----------------------------------------------------------------------------
(* C10: internal_without_mods *)

NoHyphen(s) == \A i \in 1..Len(s) : s[i] # "-"

\* no "[" with a "]" after it
NoBracketPair(s) == ~ \E i \in 1..Len(s) : \E j \in (i + 1)..Len(s) : s[i] = "[" /\ s[j] = "]"

\* no "[" with a "]" after it on the same line
NoBracketPairOnLine(s) ==
  ~ \E i \in 1..Len(s) : \E j \in (i + 1)..Len(s) :
      s[i] = "[" /\ s[j] = "]" /\ \A x \in (i + 1)..(j - 1) : s[x] # "\n"

\* C10 as stated: a sequence with no bracketed token and no hyphen comes back
\* unchanged; stripping a result again changes nothing; a result has no hyphen
\* and no '[...]' pair.
C10_StripLeavesNoToken ==
  Done("internal_without_mods") =>
    /\ Len(ret.val) = Len(req.a)
    /\ \A k \in 1..Len(req.a) :
         /\ (NoBracketPair(req.a[k]) /\ NoHyphen(req.a[k])) => ret.val[k] = req.a[k]
         /\ StripMods(ret.val[k]) = ret.val[k]
         /\ NoHyphen(ret.val[k])
         /\ NoBracketPair(ret.val[k])

\* C10 as amended: as stated, but the result has no '[...]' pair within one
\* line; a "[" and a later "]" with a line break between them are kept.
C10_StripLeavesNoTokenOnLine ==
  Done("internal_without_mods") =>
    /\ Len(ret.val) = Len(req.a)
    /\ \A k \in 1..Len(req.a) :
         /\ (NoBracketPair(req.a[k]) /\ NoHyphen(req.a[k])) => ret.val[k] = req.a[k]
         /\ StripMods(ret.val[k]) = ret.val[k]
         /\ NoHyphen(ret.val[k])
         /\ NoBracketPairOnLine(ret.val[k])

C10_Witness ==
  /\ Done("internal_without_mods")
  /\ \E k \in 1..Len(req.a) :
       /\ ~NoBracketPairOnLine(req.a[k])
       /\ \E i \in 2..Len(req.a[k]) : req.a[k][i - 1] = "]" /\ req.a[k][i] = "-"
       /\ ret.val[k] = <<"G">>

-----------------------------------------------------------------------------
(* C11: parse_modstrings *)

\* C11: a sequence whose matched elements do not concatenate back to it gives
\* [0] without an error under filter=True, with or without translate, and
\* under filter=False an error naming exactly its unparsable characters; the
\* other sequences of the batch give their elements (or their values).
C11_UnparsableSentinelOrNamedError ==
  Done("parse_modstrings") =>
    /\ Len(ret.val) = Len(req.a.sequences)
    /\ \A k \in 1..Len(req.a.sequences) :
         LET s == req.a.sequences[k]
         IN  IF RemoveMatches(Scan(PatternOf(req.a.alphabet), s, 0), s) = <<>>
             THEN /\ ret.val[k].status = "ok"
                  /\ ~req.a.translate => Join(ret.val[k].val) = s
                  /\ Len(ret.val[k].val) = Len(Scan(PatternOf(req.a.alphabet), s, 0))
             ELSE IF req.a.filter THEN ret.val[k] = Returned(<<0>>)
             ELSE ret.val[k]
                    = RaisedWith("ValueError",
                                 RemoveMatches(Scan(PatternOf(req.a.alphabet), s, 0), s))

-----------------------------------------------------------------------------
(* C12: the charges of the records *)

\* C12: with C = min(charge, 3), the records initialize_peaks returns hold,
\* for every (ion type, ordinal) pair among them, exactly one record for each
\* charge 1..C and none of another charge: every charge lies in 1..3.
C12_EveryChargeUpToClamp ==
  (Done("initialize_peaks") /\ ret.status = "ok" /\ HasColumns(ret.val.peaks))
  => \A triples \in {{<<ret.val.peaks[k].ion_type, ret.val.peaks[k].no, ret.val.peaks[k].charge>> :
                       k \in 1..Len(ret.val.peaks)}} :
       /\ Cardinality(triples) = Len(ret.val.peaks)
       /\ \A t \in triples :
            /\ t[3] \in 1..ClampedCharge(req.a.charge)
            /\ t[3] \in 1..3
            /\ \A c \in 1..ClampedCharge(req.a.charge) : <<t[1], t[2], c>> \in triples

C12_Witness ==
  /\ Done("initialize_peaks") /\ ret.status = "ok" /\ HasColumns(ret.val.peaks)
  /\ req.a.charge = 4
  /\ BareLen(req.pieces) = 2
  /\ Len(ret.val.peaks) = 12
  /\ \E k \in 1..Len(ret.val.peaks) :
       ret.val.peaks[k].charge = 3 /\ ret.val.peaks[k].ion_type = "y" /\ ret.val.peaks[k].no = 2

-----------------------------------------------------------------------------
(* C13: the mass initialize_peaks_xl returns *)

\* the piece that is the crosslinker token of a crosslinker type
XlTokenPiece(crosslinker_type) ==
  IF Upper(crosslinker_type) = "DSSO" THEN "[UNIMOD:1896]"
  ELSE IF Upper(crosslinker_type) \in {"DSBU", "BUURBU"} THEN "[UNIMOD:1884]"
  ELSE "[UNIMOD:1898]"

\* the pieces of a sequence other than the crosslinker token
WithoutXl(pieces, crosslinker_type) ==
  SelectSeq(pieces, LAMBDA q : q # XlTokenPiece(crosslinker_type))

\* C13: in both branches the fourth element initialize_peaks_xl returns is the
\* peptide mass of the primary sequence without its crosslinker token: for a
\* chain with no other token, the residues plus H and OH, with no crosslinker,
\* remnant or partner mass in it.
C13_MassExcludesCrosslinker ==
  (Done("initialize_peaks_xl") /\ ret.status = "ok")
  => \A plain \in {WithoutXl(req.pieces, req.a.crosslinker_type)} :
       /\ Returned(ret.val.mass) = compute_peptide_mass(MOD_MASSES, Text(plain))
       /\ (\A k \in 1..Len(plain) : plain[k] \in ResiduePieces)
          => ret.val.mass = ResidueSum(plain) + ATOM_H + (ATOM_O + ATOM_H)

C13_Witness ==
  /\ Done("initialize_peaks_xl") /\ ret.status = "ok"
  /\ Upper(req.a.crosslinker_type) = "BS3"
  /\ req.pieces = <<"G", "K", "[UNIMOD:1898]">>
  /\ ret.val.mass = AA_MASSES["G"] + AA_MASSES["K"] + ATOM_H + (ATOM_O + ATOM_H)
  /\ \E k \in 1..Len(ret.val.peaks) :
       ret.val.peaks[k].ion_type = "b-xl" /\ ret.val.peaks[k].mass > ret.val.mass

-----------------------------------------------------------------------------
(* C14..C17: what _get_modifications returns *)

\* the number of residues among the first k pieces
ResiduesBefore(pieces, k) == Cardinality({j \in 1..k : pieces[j] \in ResiduePieces})

\* the sequence starts with an isobaric tag and the terminal marker
TaggedNTerm(pieces) ==
  Len(pieces) >= 2 /\ pieces[1] \in IsobaricPieces /\ pieces[2] = "-"

\* the token pieces that belong to the residue at index i: the ones that come
\* after it and before the next residue, and for i = 0 the n-terminal tag
Attached(pieces, i) ==
  {k \in 1..Len(pieces) :
     /\ pieces[k] \in TokenPieces
     /\ \/ ResiduesBefore(pieces, k) = i + 1
        \/ (i = 0 /\ k = 1 /\ TaggedNTerm(pieces))}

AttachedSum(pieces, i) ==
  RangeSum([k \in 1..Len(pieces) |->
              IF k \in Attached(pieces, i)
              THEN Lookup(BASE_MOD_MASSES, PieceText[pieces[k]]) ELSE 0],
           1, Len(pieces))

\* the pieces k and k + 1 swapped
SwapAt(pieces, k) ==
  [j \in 1..Len(pieces) |->
     IF j = k THEN pieces[k + 1] ELSE IF j = k + 1 THEN pieces[k] ELSE pieces[j]]

\* C14: the delta _get_modifications stores at a residue index is the sum of
\* the masses of all the tokens attached to that residue (the n-terminal tag
\* included at index 0), none overwritten; swapping two neighbouring tokens of
\* one residue changes neither the returned map nor compute_peptide_mass.
C14_DeltasSummedPerIndex ==
  /\ (Done("_get_modifications") /\ Linear(req.pieces))
     => /\ ret.val.ok
        /\ \A i \in 0..(BareLen(req.pieces) - 1) :
             /\ i \in DOMAIN ret.val.deltas <=> Attached(req.pieces, i) # {}
             /\ DeltaAt(ret.val.deltas, i) = AttachedSum(req.pieces, i)
  /\ (pc = "done" /\ req.op \in {"_get_modifications", "compute_peptide_mass"}
        /\ Linear(req.pieces))
     => \A k \in 1..(Len(req.pieces) - 1) :
          (/\ req.pieces[k] \in TokenPieces
           /\ req.pieces[k + 1] \in TokenPieces
           /\ ResiduesBefore(req.pieces, k) >= 1)
          => \A swapped \in {Text(SwapAt(req.pieces, k))} :
               ret = IF req.op = "_get_modifications"
                     THEN Returned(get_modifications(MOD_MASSES, swapped))
                     ELSE compute_peptide_mass(MOD_MASSES, swapped)

C14_Witness ==
  /\ Done("_get_modifications")
  /\ req.pieces = <<"[UNIMOD:737]", "-", "K", "[UNIMOD:4]", "[UNIMOD:368]">>
  /\ ret.val.ok
  /\ DOMAIN ret.val.deltas = {0}
  /\ ret.val.deltas[0] = 2291629 + 570215 - 339877

\* C15: every key of the map _get_modifications returns is an index of the
\* bare sequence, 0 <= i < len(bare sequence), tokens before the first residue
\* included.
C15_DeltaKeysAreResidueIndexes ==
  (Done("_get_modifications") /\ ret.val.ok)
  => \A i \in DOMAIN ret.val.deltas : 0 <= i /\ i < Len(ret.val.seq)

\* C16: the bare sequence _get_modifications returns is made of residue
\* letters only, without bracket or hyphen, and is what internal_without_mods
\* gives for the same input.
C16_BareSequenceIsResidues ==
  (Done("_get_modifications") /\ ret.val.ok)
  => /\ \A i \in 1..Len(ret.val.seq) : ret.val.seq[i] \in DOMAIN AA_MASSES
     /\ \A i \in 1..Len(ret.val.seq) : ret.val.seq[i] \notin {"[", "]", "-"}
     /\ ret.val.seq = StripMods(Text(req.pieces))

\* C17: the flag _get_modifications returns is 2 exactly when the input starts
\* with an isobaric tag directly followed by the hyphen; the tag's mass is then
\* in the delta of index 0 and the tag and the marker are not in the bare
\* sequence. Otherwise the flag is 1: a tag on a side chain, a tag without the
\* marker, another token before the marker.
C17_IsobaricFlag ==
  (Done("_get_modifications") /\ ret.val.ok)
  => /\ ret.val.tmt = (IF TaggedNTerm(req.pieces) THEN 2 ELSE 1)
     /\ TaggedNTerm(req.pieces)
        => /\ 0 \in DOMAIN ret.val.deltas
           /\ ret.val.seq = SelectSeq(Tail(Tail(req.pieces)),
                                      LAMBDA q : q \in ResiduePieces \cup {"-"})
     /\ (TaggedNTerm(req.pieces) /\ Linear(req.pieces))
        => /\ ret.val.seq = BarePieces(req.pieces)
           /\ ret.val.deltas[0] = Lookup(BASE_MOD_MASSES, PieceText[req.pieces[1]])
                                    + AttachedSum(Tail(Tail(req.pieces)), 0)

C17_Witness ==
  /\ Done("_get_modifications") /\ ret.val.ok
  /\ req.pieces = <<"[UNIMOD:214]", "-", "K", "[UNIMOD:737]", "G">>
  /\ ret.val.tmt = 2
  /\ ret.val.seq = <<"K", "G">>
  /\ ret.val.deltas[0] = 1441021 + 2291629

-----------------------------------------------------------------------------
(* C18..C20: cross-linked chains *)

Cleavable(crosslinker_type) == Upper(crosslinker_type) \in {"DSSO", "DSBU", "BUURBU"}

NonCleavable(crosslinker_type) == Upper(crosslinker_type) \in {"BS3", "DSS"}

\* the chain holds its crosslinker token once, on the residue at position p
\* (counted from 1), and is a linear peptide otherwise
XlAt(pieces, crosslinker_type, p) ==
  /\ Linear(pieces)
  /\ \E k \in 1..Len(pieces) :
       /\ pieces[k] = XlTokenPiece(crosslinker_type)
       /\ ResiduesBefore(pieces, k) = p
       /\ \A j \in 1..Len(pieces) : pieces[j] = XlTokenPiece(crosslinker_type) => j = k

\* the short ("s") or long ("l") remnant piece of a cleavable crosslinker
RemnantPiece(crosslinker_type, variant) ==
  IF Upper(crosslinker_type) = "DSSO"
  THEN (IF variant = "s" THEN "[UNIMOD:1881]" ELSE "[UNIMOD:1882]")
  ELSE (IF variant = "s" THEN "[UNIMOD:1886]" ELSE "[UNIMOD:1885]")

\* the chain with the crosslinker token replaced by a remnant
WithRemnant(pieces, crosslinker_type, variant) ==
  [k \in 1..Len(pieces) |->
     IF pieces[k] = XlTokenPiece(crosslinker_type)
     THEN RemnantPiece(crosslinker_type, variant) ELSE pieces[k]]

\* how many records carry a label, an ordinal and a charge
CountOf(peaks, label, no, charge) ==
  Cardinality({k \in 1..Len(peaks) :
                 peaks[k].ion_type = label /\ peaks[k].no = no /\ peaks[k].charge = charge})

\* one record carries the label, the ordinal and the charge; for the ordinal L
\* (the whole chain), one at most
Once(peaks, label, no, charge, L) ==
  IF no < L THEN CountOf(peaks, label, no, charge) = 1
  ELSE CountOf(peaks, label, no, charge) <= 1

\* a b ion of ordinal no, or a y ion of ordinal no, holds the residue at p
PastThreshold(ion, no, p, L) == IF ion = "b" THEN no >= p ELSE no >= L - p + 1

\* C18: for a cleavable crosslinker on the residue at position p of a chain of
\* bare length L, the short and the long variant have the same number of
\* records; in the result every b record of ordinal < p and every y record of
\* ordinal < L-p+1 appears once, labelled b or y, and every record at or past
\* its threshold once as b-short/y-short and once as b-long/y-long; the
\* charges are 1 and 2 only.
C18_CleavableVariants ==
  (/\ Done("initialize_peaks_xl") /\ ret.status = "ok"
   /\ Cleavable(req.a.crosslinker_type)
   /\ XlAt(req.pieces, req.a.crosslinker_type, req.a.crosslinker_position))
  => LET L   == BareLen(req.pieces)
         p   == req.a.crosslinker_position
         cfg == PlainCfg(req.a.mass_analyzer, 2, req.a.mass_tolerance,
                         req.a.unit_mass_tolerance)
     IN  /\ \A k \in 1..Len(ret.val.peaks) :
              /\ ret.val.peaks[k].charge \in {1, 2}
              /\ ret.val.peaks[k].ion_type \in {"b", "y", "b-short", "y-short", "b-long", "y-long"}
              /\ ret.val.peaks[k].no \in 1..L
         /\ \A ion \in {"b", "y"}, no \in 1..L, charge \in {1, 2} :
              \A short \in {IF ion = "b" THEN "b-short" ELSE "y-short"},
                 long  \in {IF ion = "b" THEN "b-long" ELSE "y-long"} :
                IF PastThreshold(ion, no, p, L)
                THEN /\ CountOf(ret.val.peaks, ion, no, charge) = 0
                     /\ Once(ret.val.peaks, short, no, charge, L)
                     /\ Once(ret.val.peaks, long, no, charge, L)
                     /\ CountOf(ret.val.peaks, short, no, charge)
                          = CountOf(ret.val.peaks, long, no, charge)
                ELSE /\ Once(ret.val.peaks, ion, no, charge, L)
                     /\ CountOf(ret.val.peaks, short, no, charge) = 0
                     /\ CountOf(ret.val.peaks, long, no, charge) = 0
         /\ \A out_s \in {initialize_peaks(MOD_MASSES,
                            Text(WithRemnant(req.pieces, req.a.crosslinker_type, "s")), cfg)},
               out_l \in {initialize_peaks(MOD_MASSES,
                            Text(WithRemnant(req.pieces, req.a.crosslinker_type, "l")), cfg)} :
              /\ out_s.status = "ok" /\ out_l.status = "ok"
              /\ Len(out_s.val.peaks) = Len(out_l.val.peaks)
              /\ Len(ret.val.peaks) <= Len(out_s.val.peaks) + Len(out_l.val.peaks)
              /\ \A k \in 1..Len(ret.val.peaks) :
                   \E j \in 1..Len(out_s.val.peaks) :
                     \/ [ret.val.peaks[k] EXCEPT !.ion_type = "-"]
                          = [out_s.val.peaks[j] EXCEPT !.ion_type = "-"]
                     \/ [ret.val.peaks[k] EXCEPT !.ion_type = "-"]
                          = [out_l.val.peaks[j] EXCEPT !.ion_type = "-"]

C18_Witness ==
  /\ Done("initialize_peaks_xl") /\ ret.status = "ok"
  /\ Upper(req.a.crosslinker_type) = "DSSO"
  /\ req.pieces = <<"G", "K", "[UNIMOD:1896]">>
  /\ req.a.crosslinker_position = 2
  /\ Len(ret.val.peaks) = 14
  /\ CountOf(ret.val.peaks, "b", 1, 2) = 1
  /\ CountOf(ret.val.peaks, "y-short", 1, 1) = 1
  /\ CountOf(ret.val.peaks, "y-long", 1, 1) = 1

\* the residue at index i (from 0) of a chain with what is attached to it
ResidueWithTokens(pieces, i) == AA_MASSES[BarePieces(pieces)[i + 1]] + AttachedSum(pieces, i)

\* the neutral mass of the b or y ion of ordinal no of a chain, as a linear
\* peptide: its residues, their tokens, and for y the water and the hydrogen
LinearIon(pieces, ion, no) ==
  LET L == BareLen(pieces)
  IN  IF ion = "b"
      THEN RangeSum([i \in 0..(no - 1) |-> ResidueWithTokens(pieces, i)], 0, no - 1)
      ELSE RangeSum([i \in (L - no)..(L - 1) |-> ResidueWithTokens(pieces, i)], L - no, L - 1)
             + ATOM_O + ATOM_H + ATOM_H

\* the record with a label, an ordinal and a charge has this mass
MassOf(peaks, label, no, charge, mass, L) ==
  /\ Once(peaks, label, no, charge, L)
  /\ \A k \in 1..Len(peaks) :
       (peaks[k].ion_type = label /\ peaks[k].no = no /\ peaks[k].charge = charge)
       => peaks[k].mass = mass

\* C19: for a non-cleavable crosslinker on the residue at position p of a
\* chain of bare length L, the b records of ordinal >= p and the y records of
\* ordinal >= L-p+1, and only they, are labelled b-xl / y-xl and have the
\* partner's peptide mass added to the ion mass before the division by the
\* charge; every other record has the linear peptide's mass and label.
C19_PartnerMassPastCrosslink ==
  (/\ Done("initialize_peaks_xl") /\ ret.status = "ok"
   /\ NonCleavable(req.a.crosslinker_type)
   /\ XlAt(req.pieces, req.a.crosslinker_type, req.a.crosslinker_position))
  => LET L == BareLen(req.pieces)
         p == req.a.crosslinker_position
     IN  /\ \A k \in 1..Len(ret.val.peaks) :
              /\ ret.val.peaks[k].charge \in 1..3
              /\ ret.val.peaks[k].ion_type \in {"b", "y", "b-xl", "y-xl"}
              /\ ret.val.peaks[k].no \in 1..L
         /\ \A ion \in {"b", "y"}, no \in 1..L, charge \in 1..3 :
              \A xl \in {IF ion = "b" THEN "b-xl" ELSE "y-xl"},
                 linear \in {LinearIon(req.pieces, ion, no)} :
                IF PastThreshold(ion, no, p, L)
                THEN /\ CountOf(ret.val.peaks, ion, no, charge) = 0
                     /\ MassOf(ret.val.peaks, xl, no, charge,
                               FDiv(linear + (AA_MASSES["G"] + AA_MASSES["K"]
                                               + ATOM_H + ATOM_O + ATOM_H)
                                      + charge * PROTON, charge), L)
                ELSE /\ CountOf(ret.val.peaks, xl, no, charge) = 0
                     /\ MassOf(ret.val.peaks, ion, no, charge,
                               FDiv(linear + charge * PROTON, charge), L)

C19_Witness ==
  /\ Done("initialize_peaks_xl") /\ ret.status = "ok"
  /\ Upper(req.a.crosslinker_type) = "BS3"
  /\ req.pieces = <<"K", "[UNIMOD:1898]", "G">>
  /\ req.a.crosslinker_position = 1
  /\ CountOf(ret.val.peaks, "y", 1, 3) = 1
  /\ CountOf(ret.val.peaks, "y-xl", 2, 3) = 1
  /\ CountOf(ret.val.peaks, "b-xl", 1, 2) = 1

\* C20: when the primary chain's bare sequence is longer than 30 residues,
\* initialize_peaks_xl (cleavable, and non-cleavable with its partner chain)
\* returns a degenerate result with no fragment, and raises nothing.
C20_XlOverflowSentinel ==
  (/\ Done("initialize_peaks_xl")
   /\ TokensResolve(req.pieces) /\ BareLen(req.pieces) > 30
   /\ \/ Cleavable(req.a.crosslinker_type)
      \/ (NonCleavable(req.a.crosslinker_type) /\ req.a.sequence_beta # None))
  => /\ ret.status = "ok"
     /\ ~HasColumns(ret.val.peaks)

-----------------------------------------------------------------------------
(* C21: the elements parse_modstrings returns *)

\* the keys of the alphabet that the text starts with
PrefixKeys(alphabet, rest) ==
  {j \in 1..Len(alphabet) : alphabet[j].key # <<>> /\ StartsWith(rest, alphabet[j].key)}

\* the text cut into elements, each the longest key the remaining text starts
\* with, up to the end of the text or to where no key fits
RECURSIVE GreedySplit(_, _)
GreedySplit(alphabet, rest) ==
  IF rest = <<>> \/ PrefixKeys(alphabet, rest) = {} THEN <<>>
  ELSE LET j == CHOOSE j \in PrefixKeys(alphabet, rest) :
                  \A i \in PrefixKeys(alphabet, rest) :
                    Len(alphabet[i].key) <= Len(alphabet[j].key)
       IN  <<j>> \o GreedySplit(alphabet, Slice(rest, Len(alphabet[j].key), Len(rest)))

\* C21: a sequence that the longest-key-first cut covers from end to end is
\* returned as exactly these elements, which concatenate to the input, and
\* with translate=True as their codes, same length and order; no other
\* sequence is returned as elements.
C21_LongestKeyFirst ==
  Done("parse_modstrings") =>
    \A k \in 1..Len(req.a.sequences) :
      \A cut \in {GreedySplit(req.a.alphabet, req.a.sequences[k])} :
        IF Flatten([i \in 1..Len(cut) |-> req.a.alphabet[cut[i]].key], 1, Len(cut))
             = req.a.sequences[k]
        THEN /\ ret.val[k].status = "ok"
             /\ Len(ret.val[k].val) = Len(cut)
             /\ \A i \in 1..Len(cut) :
                  ret.val[k].val[i] = IF req.a.translate THEN req.a.alphabet[cut[i]].value
                                      ELSE req.a.alphabet[cut[i]].key
             /\ ~req.a.translate => Join(ret.val[k].val) = req.a.sequences[k]
        ELSE ret.val[k].status = "ok" => ret.val[k].val = <<0>>

C21_Witness ==
  /\ Done("parse_modstrings")
  /\ req.a.translate
  /\ req.a.sequences = << <<"A", "B", "C", "A">> >>
  /\ ret.val[1] = Returned(<<3, 2, 1>>)

-----------------------------------------------------------------------------
(* C22, C23: internal_to_mod_names *)

\* C22: whenever the processing of a sequence starts, the position, the offset
\* and the match list are 0, 0 and empty; a batch that returns gives for each
\* sequence what that sequence gives alone, and a batch fails only on a
\* sequence that fails alone.
C22_CellsFreshPerSequence ==
  /\ (req.op = "internal_to_mod_names" /\ pc = "map") => ret.val.cells = InitialCells
  /\ (Done("internal_to_mod_names") /\ ret.status = "ok")
     => /\ Len(ret.val) = Len(req.a)
        /\ \A k \in 1..Len(req.a) :
             Returned(ret.val[k]) = msp_string_mapper(req.a[k], InitialCells).result
  /\ (Done("internal_to_mod_names") /\ ret.status # "ok")
     => \E k \in 1..Len(req.a) : msp_string_mapper(req.a[k], InitialCells).result = ret

C22_Witness ==
  /\ Done("internal_to_mod_names") /\ ret.status = "ok"
  /\ req.pieces = << <<"K", "[UNIMOD:737]">>, <<"G", "[UNIMOD:4]">> >>
  /\ ret.val[2].mod.fields = << [pos |-> 0, residue |-> "G", name |-> "Carbamidomethyl"] >>

\* the pieces that MOD_NAMES names
NamedPieces == {q \in DOMAIN PieceText : \E j \in 1..Len(MOD_NAMES) : MOD_NAMES[j].key = PieceText[q]}

\* the final string of a sequence of pieces: the named tokens taken out
FinalText(pieces) == Text(SelectSeq(pieces, LAMBDA q : q \notin NamedPieces))

\* C23: for every named token of every sequence, the position reported is the
\* index, in the string without the tokens, of the residue the token is
\* attached to (a token before the first residue included); it lies in
\* [0, len(final string)) and the residue reported is the character there.
C23_PositionInFinalString ==
  (Done("internal_to_mod_names") /\ ret.status = "ok")
  => \A s \in 1..Len(req.pieces) :
       \A final \in {FinalText(req.pieces[s])},
          named \in {SelectSeq([k \in 1..Len(req.pieces[s]) |-> k],
                               LAMBDA k : req.pieces[s][k] \in NamedPieces)} :
         /\ ret.val[s].mod_string.seq = final
         /\ ret.val[s].mod.count = Len(named)
         /\ Len(ret.val[s].mod.fields) = Len(named)
         /\ \A k \in 1..Len(named) :
              \A e \in {ret.val[s].mod.fields[k]} :
                /\ 0 <= e.pos /\ e.pos < Len(final)
                /\ \A before \in {Len(FinalText(SubSeq(req.pieces[s], 1, named[k] - 1)))} :
                     e.pos = IF before = 0 THEN 0 ELSE before - 1
                /\ e.residue = final[e.pos + 1]
                /\ ret.val[s].mod_string.names[k]
                     = [name |-> e.name, residue |-> e.residue, pos |-> e.pos]

-----------------------------------------------------------------------------
(* C24: maxquant_to_internal *)

\* the internal text of the residues and keys between the ends of a sequence:
\* for each the value of the key or of the fixed residue, or the piece itself
InternalCore(fixed, core) ==
  Bind(Merge(MAXQUANT_VAR_MODS, fixed), LAMBDA replacements :
    Flatten([k \in 1..Len(core) |->
               IF KeyPlace(replacements, PieceText[core[k]]) = 0 THEN PieceText[core[k]]
               ELSE replacements[KeyPlace(replacements, PieceText[core[k]])].val],
            1, Len(core)))

\* C24: with fixed modifications whose values are all values of the
\* variable-modification table, a list of the same length is returned, one
\* sequence per input, in which every key between the ends is replaced by its
\* internal value and none is left; with another value the call fails with a
\* validation error.
C24_MaxquantTranslated ==
  Done("maxquant_to_internal")
  => IF \E j \in 1..Len(req.b) : ~HasValue(MAXQUANT_VAR_MODS, req.b[j].val)
     THEN ret.status = "AssertionError"
     ELSE /\ ret.status = "ok"
          /\ Len(ret.val) = Len(req.a)
          /\ \A k \in 1..Len(req.a) :
               /\ \A core \in {InternalCore(req.b, req.pieces[k].core)} :
                    \E p \in 0..(Len(ret.val[k]) - Len(core)) :
                      Slice(ret.val[k], p, p + Len(core)) = core
               /\ ~Contains(ret.val[k], "(")

-----------------------------------------------------------------------------
(* C25: mass and ordinal *)

\* within one ion type and one charge, a record of a larger ordinal never has
\* a smaller mass
MonotoneInOrdinal(peaks) ==
  \A j \in 1..Len(peaks), k \in 1..Len(peaks) :
    (/\ peaks[j].ion_type = peaks[k].ion_type
     /\ peaks[j].charge = peaks[k].charge
     /\ peaks[j].no < peaks[k].no)
    => peaks[j].mass <= peaks[k].mass

\* C25 as stated: in the records initialize_peaks returns for a linear
\* peptide, for every ion type and charge, mass never decreases with ordinal,
\* for every combination of modification tokens of the mass table.
C25_MassIncreasesWithOrdinal ==
  (Done("initialize_peaks") /\ req.a.noncl_xl = 0 /\ ret.status = "ok"
     /\ HasColumns(ret.val.peaks))
  => MonotoneInOrdinal(ret.val.peaks)

\* C25 as amended: mass never decreases with ordinal, within one ion type and
\* charge, when no residue's mass plus the deltas attached to it is negative.
C25_MassIncreasesWhenNonNegative ==
  (Done("initialize_peaks") /\ req.a.noncl_xl = 0 /\ ret.status = "ok"
     /\ HasColumns(ret.val.peaks)
     /\ \A i \in 0..(BareLen(req.pieces) - 1) : ResidueWithTokens(req.pieces, i) >= 0)
  => MonotoneInOrdinal(ret.val.peaks)

C25_Witness ==
  /\ Done("initialize_peaks") /\ req.a.noncl_xl = 0 /\ ret.status = "ok"
  /\ req.pieces = <<"K", "G", "[UNIMOD:368]">>
  /\ req.a.charge = 2
  /\ \E j \in 1..Len(ret.val.peaks), k \in 1..Len(ret.val.peaks) :
       /\ ret.val.peaks[j].ion_type = "y" /\ ret.val.peaks[k].ion_type = "y"
       /\ ret.val.peaks[j].charge = 2 /\ ret.val.peaks[k].charge = 2
       /\ ret.val.peaks[j].no = 1 /\ ret.val.peaks[k].no = 2
       /\ ret.val.peaks[j].mass < ret.val.peaks[k].mass

-----------------------------------------------------------------------------
(* C26: the token loop ends *)

\* C26: each pass over the while loop of _get_modifications either returns
\* None or leaves a strictly shorter working string, so the loop cannot go on
\* for ever over a "[" that stays in place.
C26_EachPassShortensOrReturns ==
  [][(pc = "loop" /\ Contains(ret.val.seq, "["))
       => \/ pc' = "done" /\ ret' = Returned(NotFound)
          \/ pc' = "loop" /\ Len(ret'.val.seq) < Len(ret.val.seq)]_vars

\* a pass has removed a token and another "[" is still there
C26_Witness ==
  /\ pc = "loop"
  /\ Len(ret.val.seq) < Len(Text(req.pieces))
  /\ ret.val.tmt = 1
  /\ Contains(ret.val.seq, "[")

-----------------------------------------------------------------------------
(* C27: the total mass of initialize_peaks and compute_peptide_mass *)

====
